---- MODULE Spec2Model ----
(***************************************************************************)
(* Hotel VMS backend: the visitor check-in / check-out lifecycle and its   *)
(* audit trail, as implemented by the request handlers of                  *)
(*   - src/server.js                       (deployment "server"),          *)
(*   - src/README.md lines 66-978          (deployment "full"),            *)
(*   - src/README.md lines 980-1262        (deployment "lite", the         *)
(*                                          in-memory-fallback variant).   *)
(* A behaviour is one deployment serving requests.  A handler runs as a    *)
(* sequence of atomic steps: the synchronous prefix up to its first await  *)
(* (Recv_...), then one step per awaited store statement (..._s1, ..._s2), *)
(* the response being sent in the step of the last statement.  Handlers of *)
(* different requests interleave between steps.                            *)
(***************************************************************************)
EXTENDS Integers, Sequences, FiniteSets, TLC

\* ---------------------------------------------------------------- bounds
MaxInflight == 2   \* requests in flight at the same time
MaxRequests == 2   \* requests accepted in one behaviour (after start-up)
MaxTime     == 1   \* clock values 0..MaxTime
MaxOlder    == 500 \* most audit entries in the log at start-up (AuditSpec)
MaxStatsTime == 3  \* clock values 0..MaxStatsTime: two days (StatsSpec)

\* ---------------------------------------------------------------- values
NULL    == "NULL"              \* SQL NULL / JS undefined, for strings
NoTime  == -1                  \* SQL NULL, for timestamps
NullId  == <<"NULL", 0, 0>>    \* SQL NULL / JS undefined, for record ids
NullQr  == <<"NULL", NullId>>  \* SQL NULL / JS undefined, for qr tokens
\* the clock counts half days: 24 hours (86400000 ms) are two ticks
DayTicks == 2

\* record ids a mobile client sends with visitors.checkIn
CallerIds == {<<"APP", 0, 0>>}
\* qr tokens a mobile client sends with visitors.checkIn
CallerQrs == {<<"APP", NullId>>}
\* qrExpiry values a mobile client sends with visitors.checkIn (absent, or
\* 24 hours after a client clock that read 0)
CallerExpiries == {NoTime, DayTicks}
\* actor ids sent as userId / recordedBy (NULL: the field is absent)
Actors    == {"u1"}
UserIds   == Actors \cup {NULL}
\* fullName values of a request (absent, present)
NameInputs == {NULL, "Ann"}
\* suffixes Math.random().toString(36).substring(2, 8) can produce
RandSuffixes == {0}
\* the same for the fallback server, which has no table constraint behind it:
\* two suffixes, so that check-ins of one clock tick can differ or collide
LiteSuffixes == {0, 1}
\* the value a visitors.update request body carries under key k
PatchVal(k) == CASE k = "fullName" -> "Bob" [] k = "phone" -> "p1" [] OTHER -> "IN"
\* the sets of keys present in the visitors.update requests considered
PatchInputs == {{}, {"phone"}, {"fullName", "status"}}

VARIABLES
  variant,           \* which deployment runs: "server", "full", "lite"
  hasDb,             \* process.env.DATABASE_URL is set (lite deployment)
  now,               \* the clock (Date.now() and the store's NOW())
  visitor_records,   \* table visitor_records: a set of rows
  nextId,            \* the SERIAL sequence of visitor_records.id
  audit_logs,        \* table audit_logs: rows in insertion order
  checkin_records,   \* table checkin_records (lite, with a database)
  inMemoryRecords,   \* the array inMemoryRecords (lite, without a database)
  app_settings,      \* table app_settings: a set of rows
  app_users,         \* table app_users: a set of rows
  nextUserId,        \* the SERIAL sequence of app_users.id
  error_logs,        \* table error_logs: a set of rows
  inflight,          \* requests being handled
  nreq,              \* number of requests accepted so far
  last               \* the request answered last, with its response

vars == <<variant, hasDb, now, visitor_records, nextId, audit_logs,
          checkin_records, inMemoryRecords, app_settings, app_users,
          nextUserId, error_logs, inflight, nreq, last>>

store == <<visitor_records, nextId, audit_logs, checkin_records, inMemoryRecords,
           app_settings, app_users, nextUserId, error_logs>>
userTables == <<app_users, nextUserId>>
env   == <<variant, hasDb, now>>
deploy == <<variant, hasDb>>


\* ------------------------------------------------------- requests in flight
\* A request: its input, the handler's position and locals, what it has
\* observed and done so far, and (once answered) its response.
BlankReq ==
  [n |-> 0, op |-> "none", pc |-> 0,
   \* input
   recordId |-> NullId, dbId |-> 0, userId |-> NULL, fullName |-> NULL,
   qrCode |-> NullQr, qrExpiry |-> NoTime, consent |-> FALSE, patch |-> {}, complete |-> FALSE,
   \* appUsers.*: the fields of the body (NULL / "absent": the field is absent)
   username |-> NULL, password |-> NULL, userDbId |-> 0, isActive |-> "absent",
   errId |-> 0,          \* errorLog.resolve: the id of the body
   \* locals of the handler
   selId |-> NullId, selName |-> NULL,
   selUser |-> 0,        \* appUsers.login: the id of the row its SELECT returned
   \* what the request did
   stmts |-> 0,          \* store statements issued
   aud |-> <<>>,         \* audit rows it appended
   created |-> FALSE,    \* it inserted a visitor row
   matched |-> -1,       \* rows its primary statement matched (-1: not run)
   hitOut |-> FALSE,     \* the row it selected / rewrote was already OUT
   moved |-> FALSE,      \* its UPDATE changed the check-out time of an OUT row
   inAtRecv |-> FALSE,   \* on receipt, a row it names had status IN
   committed |-> FALSE,  \* its primary statement has committed
   gone |-> NULL,        \* the full_name of the row its DELETE removed
   audFailed |-> FALSE,  \* its audit insert failed
   total |-> 0,          \* rows in audit_logs when its SELECT ran
   today |-> NoTime,     \* the start of the day the request was received on
   \* settings.update, email.updateSettings: the fields of the body ({}: absent)
   inConsent |-> {}, inRetention |-> {}, inNotification |-> {}, inEnabled |-> FALSE,
   written |-> {},       \* the keys it has upserted, each with the clock of the statement
   settings |-> {},      \* settings.get: the rows its SELECT returned
   \* response
   rows |-> <<>>,        \* the list returned by auditLogs.list
   todayIn |-> 0, todayOut |-> 0, pending |-> 0,   \* the statistics returned
   ids |-> {},           \* the ids of the records returned by visitors.active
   found |-> FALSE,      \* visitors.byId returned a record, with this status
   status |-> NULL, checkOutTime |-> NoTime,      \* and this checkOutTime
   prevBy |-> NULL,      \* the resolved_by its UPDATE of error_logs overwrote
   role |-> NULL,        \* the role in the user object returned by appUsers.login
   newUserId |-> 0,      \* the id returned by appUsers.create
   consentText |-> <<>>, retentionDays |-> [nan |-> FALSE, val |-> 0],
   notificationTime |-> <<>>,                      \* the settings returned
   \* response
   success |-> FALSE, error |-> "none"]

\* the request as recorded with its response: the handler's position and
\* locals are gone
Answered(r, ok, err) ==
  [r EXCEPT !.n = 0, !.pc = 0, !.selId = NullId, !.selName = NULL, !.selUser = 0,
            !.success = ok, !.error = err]

CanAccept == nreq < MaxRequests /\ Cardinality(inflight) < MaxInflight

Accept(r) ==
  /\ CanAccept
  /\ inflight' = inflight \cup {[r EXCEPT !.n = nreq + 1, !.pc = 1]}
  /\ nreq' = nreq + 1
  /\ UNCHANGED last

\* a handler whose first awaited statement is statement pc
AcceptAt(r, pc) ==
  /\ CanAccept
  /\ inflight' = inflight \cup {[r EXCEPT !.n = nreq + 1, !.pc = pc]}
  /\ nreq' = nreq + 1
  /\ UNCHANGED last

\* res.json(...) sent without any store statement (validation in the prefix)
AnswerAtOnce(r, ok, err) ==
  /\ CanAccept
  /\ nreq' = nreq + 1
  /\ last' = Answered(r, ok, err)
  /\ UNCHANGED inflight

Continue(r, r2) ==
  /\ inflight' = (inflight \ {r}) \cup {r2}
  /\ UNCHANGED <<nreq, last>>

Reply(r, r2, ok, err) ==
  /\ inflight' = inflight \ {r}
  /\ last' = Answered(r2, ok, err)
  /\ UNCHANGED nreq

At(r, op, pc) == r.op = op /\ r.pc = pc

\* ------------------------------------------------------- store statements
Row(id, rid, name, t, qr, exp) ==
  [id |-> id, record_id |-> rid, full_name |-> name, status |-> "IN",
   check_in_time |-> t, check_out_time |-> NoTime, qr_code |-> qr,
   qr_expiry |-> exp, phone |-> "p0"]

\* (a table whose record_id column has no UNIQUE constraint)
InsertAllowed_noUnique(rid, name, by) ==
  /\ rid # NullId
  /\ name # NULL
  /\ by # NULL

\* visitor_records: record_id UNIQUE NOT NULL, full_name NOT NULL,
\* recorded_by NOT NULL
InsertAllowed(rid, name, by) ==
  /\ rid # NullId
  /\ name # NULL
  /\ by # NULL
  /\ \A v \in visitor_records : v.record_id # rid

\* audit_logs: user_id NOT NULL (record_id is nullable)
AuditAllowed(e) == e.user_id # NULL

AuditRow(rid, user, action, details) ==
  [record_id |-> rid, user_id |-> user, action |-> action, details |-> details]

\* `x = NULL` is never true in SQL
ByRecordId(rid) == {v \in visitor_records : rid # NullId /\ v.record_id = rid}
ByQrCode(qr)    == {v \in visitor_records : qr # NullQr /\ v.qr_code = qr}
ByDbId(id)      == {v \in visitor_records : v.id = id}

\* (a check-out that forgets the timestamp)
SetOut_statusOnly(v, t) == [v EXCEPT !.status = "OUT"]

SetOut(v, t) == [v EXCEPT !.status = "OUT", !.check_out_time = t]

\* UPDATE visitor_records SET status = 'OUT', check_out_time = NOW() WHERE <hit>
CheckOutUpdate(hit, t) ==
  (visitor_records \ hit) \cup {SetOut(v, t) : v \in hit}

\* INSERT INTO audit_logs ..., then the success response; the handler's catch
\* turns a failed insert into the failure response.
AuditAndReply(r, e) ==
  \E ok \in BOOLEAN :
    IF ok /\ AuditAllowed(e)
    THEN /\ audit_logs' = Append(audit_logs, e)
         /\ Reply(r, [r EXCEPT !.stmts = @ + 1, !.aud = Append(@, e)], TRUE, "none")
    ELSE /\ UNCHANGED audit_logs
         /\ Reply(r, [r EXCEPT !.stmts = @ + 1, !.audFailed = TRUE], FALSE, "storage")

\* a statement that threw: the handler's catch answers success:false
Thrown(r) == Reply(r, [r EXCEPT !.stmts = @ + 1], FALSE, "storage")

\* ------------------------------------------------------- settings values
\* A string is the sequence of its characters.
DefaultConsentText      == <<"consent-default">>   \* the Thai default text, as one symbol
DefaultNotificationTime == <<"0", "0", ":", "0", "0">>
DefaultRetentionDays    == <<"9", "0">>

DigitChars == <<"0", "1", "2", "3", "4", "5", "6", "7", "8", "9">>
IsDigit(c)  == \E i \in 1..10 : DigitChars[i] = c
DigitVal(c) == (CHOOSE i \in 1..10 : DigitChars[i] = c) - 1

\* a JavaScript number: an integer or NaN
JsNumber(n) == [nan |-> FALSE, val |-> n]
NaN         == [nan |-> TRUE, val |-> 0]

\* a JavaScript value of a request body: a number or a string
Num(n) == [tag |-> "number", num |-> n, str |-> <<>>]
Str(s) == [tag |-> "string", num |-> 0, str |-> s]

RECURSIVE NatToString(_)
NatToString(n) ==
  IF n < 10 THEN <<DigitChars[n + 1]>>
  ELSE Append(NatToString(n \div 10), DigitChars[(n % 10) + 1])

\* x.toString() of a number or a string
JsToString(x) ==
  IF x.tag = "string" THEN x.str
  ELSE IF x.num < 0 THEN <<"-">> \o NatToString(-x.num) ELSE NatToString(x.num)

\* b.toString() of a boolean
BoolToString(b) == IF b THEN <<"t", "r", "u", "e">> ELSE <<"f", "a", "l", "s", "e">>

RECURSIVE SkipSpaces(_)
SkipSpaces(s) == IF s # <<>> /\ Head(s) = " " THEN SkipSpaces(Tail(s)) ELSE s

\* the value of the longest prefix of digits of s, continuing from acc
RECURSIVE DigitsValue(_, _)
DigitsValue(s, acc) ==
  IF s # <<>> /\ IsDigit(Head(s))
  THEN DigitsValue(Tail(s), 10 * acc + DigitVal(Head(s)))
  ELSE acc

\* parseInt(s): leading white space is skipped, then an optional sign, then
\* the longest prefix of decimal digits; NaN when there is no digit.  (No
\* string considered here starts with 0x, the one case parseInt reads as
\* hexadecimal.)
ParseInt(s) ==
  LET t    == SkipSpaces(s)
      sign == IF t # <<>> /\ Head(t) = "-" THEN -1 ELSE 1
      u    == IF t # <<>> /\ Head(t) \in {"-", "+"} THEN Tail(t) ELSE t
  IN  IF u # <<>> /\ IsDigit(Head(u)) THEN JsNumber(sign * DigitsValue(u, 0))
      ELSE NaN

SettingsRow(k, v, t) == [key |-> k, value |-> v, updated_at |-> t]

\* INSERT INTO app_settings (key, value) VALUES (k, v)
\*   ON CONFLICT (key) DO UPDATE SET value = v
\* at clock reading t: a new row takes updated_at from DEFAULT NOW(), a row
\* in conflict has its value set and nothing else.
Upsert(tbl, k, v, t) ==
  IF \E x \in tbl : x.key = k
  THEN {IF x.key = k THEN [x EXCEPT !.value = v] ELSE x : x \in tbl}
  ELSE tbl \cup {SettingsRow(k, v, t)}

\* README.md 191-204: a start that finds app_settings empty inserts the seven
\* defaults; server.js creates the table and inserts nothing.
SeededSettings ==
  {SettingsRow("consentText", DefaultConsentText, 0),
   SettingsRow("retentionDays", DefaultRetentionDays, 0),
   SettingsRow("notificationTime", DefaultNotificationTime, 0),
   SettingsRow("emailEnabled", BoolToString(FALSE), 0),
   SettingsRow("emailRecipient", <<>>, 0),
   SettingsRow("emailSendTime", <<"0", "8", ":", "0", "0">>, 0),
   SettingsRow("emailIncludeDetails", BoolToString(TRUE), 0)}

SettingsAtStart(d) == IF d = "full" THEN SeededSettings ELSE {}

\* ------------------------------------------------------------- app_users
UserRow(id, username, password, name, role, active) ==
  [id |-> id, username |-> username, password_hash |-> password, name |-> name,
   role |-> role, is_active |-> active]

\* (a user table seeded with the administrator disabled)
DefaultUsers_adminInactive ==
  {UserRow(1, "admin", "admin123", "Administrator", "admin", FALSE),
   UserRow(2, "user", "user123", "Staff User", "user", TRUE)}

\* server.js 115-125, README.md 179-189: a start that finds app_users empty
\* inserts the two default users; the fallback server has no such table.
DefaultUsers ==
  {UserRow(1, "admin", "admin123", "Administrator", "admin", TRUE),
   UserRow(2, "user", "user123", "Staff User", "user", TRUE)}

UsersAtStart(d) == IF d = "lite" THEN {} ELSE DefaultUsers

\* The durable store outlives the process: initDatabase creates the tables
\* only IF NOT EXISTS, so a start finds either an empty store or what earlier
\* runs left.  The non-empty start state is the one a visitors.checkIn of
\* "Ann" by "u1" at time 0 leaves behind.
SeedRow   == [id |-> 1, record_id |-> <<"APP", 0, 0>>, full_name |-> "Ann",
              status |-> "IN", check_in_time |-> 0, check_out_time |-> NoTime,
              qr_code |-> <<"APP", NullId>>, qr_expiry |-> DayTicks,
              phone |-> "p0"]
SeedAudit == [record_id |-> <<"APP", 0, 0>>, user_id |-> "u1",
              action |-> "CHECK_IN", details |-> "Ann"]

Init ==
  /\ variant \in {"server", "full", "lite"}
  /\ hasDb \in IF variant = "lite" THEN BOOLEAN ELSE {TRUE}
  /\ now = 0
  /\ \E seeded \in IF variant = "lite" THEN {FALSE} ELSE BOOLEAN :
       /\ visitor_records = IF seeded THEN {SeedRow} ELSE {}
       /\ nextId = IF seeded THEN 2 ELSE 1
       /\ audit_logs = IF seeded THEN <<SeedAudit>> ELSE <<>>
  /\ checkin_records = {}
  /\ inMemoryRecords = <<>>
  /\ app_settings = SettingsAtStart(variant)
  /\ app_users = UsersAtStart(variant)
  /\ nextUserId = 3
  /\ error_logs = {}
  /\ inflight = {}
  /\ nreq = 0
  /\ last = BlankReq

\* A reading of the clock (Date.now(), NOW(), CURRENT_TIMESTAMP): the clock
\* does not run backwards, and `now` is the latest reading.
ClockReadings == {t \in 0..MaxTime : now <= t /\ t <= now + 1}

\* =================================================== deployment "server"
\* ---- visitors.checkIn (README.md 472-503 issues the same two statements)
Recv_visitors_checkIn ==
  /\ variant \in {"server", "full"}
  /\ \E rid \in CallerIds, name \in NameInputs, by \in Actors, qr \in CallerQrs,
        exp \in CallerExpiries :
       Accept([BlankReq EXCEPT !.op = "visitors.checkIn", !.recordId = rid,
                               !.fullName = name, !.userId = by, !.qrCode = qr,
                               !.qrExpiry = exp])
  /\ UNCHANGED <<env, store>>

visitors_checkIn_s1 ==
  \E r \in inflight :
    /\ At(r, "visitors.checkIn", 1)
    /\ \E ok \in BOOLEAN :
         IF ok /\ InsertAllowed(r.recordId, r.fullName, r.userId)
         THEN /\ \E t \in ClockReadings :
                   /\ now' = t
                   /\ visitor_records' = visitor_records \cup
                        {Row(nextId, r.recordId, r.fullName, t, r.qrCode, r.qrExpiry)}
              /\ nextId' = nextId + 1
              /\ Continue(r, [r EXCEPT !.pc = 2, !.stmts = @ + 1,
                                       !.created = TRUE, !.committed = TRUE])
         ELSE /\ Thrown(r)
              /\ UNCHANGED <<now, visitor_records, nextId>>
    /\ UNCHANGED <<deploy, userTables, error_logs, app_settings, audit_logs, checkin_records, inMemoryRecords>>

visitors_checkIn_s2 ==
  \E r \in inflight :
    /\ At(r, "visitors.checkIn", 2)
    /\ AuditAndReply(r, AuditRow(r.recordId, r.userId, "CHECK_IN", r.fullName))
    /\ UNCHANGED <<env, userTables, error_logs, app_settings, visitor_records, nextId, checkin_records, inMemoryRecords>>

\* ---- visitors.checkOut
Recv_visitors_checkOut ==
  /\ variant = "server"
  /\ \E rid \in CallerIds \cup {v.record_id : v \in visitor_records}, u \in UserIds :
       Accept([BlankReq EXCEPT !.op = "visitors.checkOut", !.recordId = rid,
                 !.userId = u,
                 !.inAtRecv = \E v \in ByRecordId(rid) : v.status = "IN"])
  /\ UNCHANGED <<env, store>>

visitors_checkOut_s1 ==
  \E r \in inflight :
    /\ At(r, "visitors.checkOut", 1)
    /\ variant = "server"
    /\ \E ok \in BOOLEAN :
         IF ok
         THEN LET hit == ByRecordId(r.recordId) IN
              \E t \in ClockReadings :
                /\ now' = t
                /\ visitor_records' = CheckOutUpdate(hit, t)
                /\ Continue(r, [r EXCEPT !.pc = 2, !.stmts = @ + 1,
                     !.matched = Cardinality(hit),
                     !.hitOut = \E v \in hit : v.status = "OUT",
                     !.moved = \E v \in hit : v.status = "OUT" /\ v.check_out_time # t,
                     !.committed = TRUE])
         ELSE /\ Thrown(r)
              /\ UNCHANGED <<now, visitor_records>>
    /\ UNCHANGED <<deploy, userTables, error_logs, app_settings, nextId, audit_logs, checkin_records, inMemoryRecords>>

visitors_checkOut_s2 ==
  \E r \in inflight :
    /\ At(r, "visitors.checkOut", 2)
    /\ variant = "server"
    /\ AuditAndReply(r, AuditRow(r.recordId, r.userId, "CHECK_OUT", NULL))
    /\ UNCHANGED <<env, userTables, error_logs, app_settings, visitor_records, nextId, checkin_records, inMemoryRecords>>

\* ---- visitors.update
\* the updatable request keys and their columns (of the nine, the one modelled)
\* (a field map that also lets a request set the status column)
fieldMap_withStatus ==
  [fullName |-> "full_name", phone |-> "phone", status |-> "status"]

\* (of the nine entries, two columns are kept: fullName and phone)
fieldMap == [fullName |-> "full_name", phone |-> "phone"]

\* the keys of the request that the loop over fieldMap turns into SET clauses
Updates(patch) == {k \in patch : k \in DOMAIN fieldMap}

\* (an UPDATE that writes every mapped column, NULL where the key is absent)
ApplyUpdates_allColumns(v, ks) ==
  [c \in DOMAIN v |-> IF \E k \in DOMAIN fieldMap : fieldMap[k] = c
                      THEN IF \E k \in ks : fieldMap[k] = c
                           THEN PatchVal(CHOOSE k \in ks : fieldMap[k] = c)
                           ELSE NULL
                      ELSE v[c]]

\* UPDATE visitor_records SET <col = value, ...> on one row
ApplyUpdates(v, ks) ==
  [c \in DOMAIN v |-> IF \E k \in ks : fieldMap[k] = c
                      THEN PatchVal(CHOOSE k \in ks : fieldMap[k] = c)
                      ELSE v[c]]

Recv_visitors_update ==
  /\ variant = "server"
  /\ \E rid \in CallerIds \cup {v.record_id : v \in visitor_records},
        u \in Actors, patch \in PatchInputs :
       LET r == [BlankReq EXCEPT !.op = "visitors.update", !.recordId = rid,
                                 !.userId = u, !.patch = patch]
       IN IF Updates(patch) = {}
          THEN AnswerAtOnce(r, TRUE, "none")
          ELSE Accept(r)
  /\ UNCHANGED <<env, store>>

visitors_update_s1 ==
  \E r \in inflight :
    /\ At(r, "visitors.update", 1)
    /\ variant = "server"
    /\ \E ok \in BOOLEAN :
         IF ok
         THEN LET hit == ByRecordId(r.recordId) IN
              /\ visitor_records' = (visitor_records \ hit) \cup
                   {ApplyUpdates(v, Updates(r.patch)) : v \in hit}
              /\ Continue(r, [r EXCEPT !.pc = 2, !.stmts = @ + 1,
                                !.matched = Cardinality(hit), !.committed = TRUE])
         ELSE /\ Thrown(r)
              /\ UNCHANGED visitor_records
    /\ UNCHANGED <<env, userTables, error_logs, app_settings, nextId, audit_logs, checkin_records, inMemoryRecords>>

visitors_update_s2 ==
  \E r \in inflight :
    /\ At(r, "visitors.update", 2)
    /\ variant = "server"
    /\ AuditAndReply(r, AuditRow(r.recordId, r.userId, "EDIT_RECORD", NULL))
    /\ UNCHANGED <<env, userTables, error_logs, app_settings, visitor_records, nextId, checkin_records, inMemoryRecords>>

\* ---- visitors.delete
Recv_visitors_delete ==
  /\ variant = "server"
  /\ \E rid \in CallerIds \cup {v.record_id : v \in visitor_records}, u \in Actors :
       Accept([BlankReq EXCEPT !.op = "visitors.delete", !.recordId = rid, !.userId = u])
  /\ UNCHANGED <<env, store>>

visitors_delete_s1 ==
  \E r \in inflight :
    /\ At(r, "visitors.delete", 1)
    /\ variant = "server"
    /\ \E ok \in BOOLEAN :
         IF ok
         THEN LET hit == ByRecordId(r.recordId) IN
              /\ visitor_records' = visitor_records \ hit
              /\ Continue(r, [r EXCEPT !.pc = 2, !.stmts = @ + 1,
                                !.matched = Cardinality(hit), !.committed = TRUE,
                                !.gone = IF hit = {} THEN NULL
                                         ELSE (CHOOSE v \in hit : TRUE).full_name])
         ELSE /\ Thrown(r)
              /\ UNCHANGED visitor_records
    /\ UNCHANGED <<env, userTables, error_logs, app_settings, nextId, audit_logs, checkin_records, inMemoryRecords>>

visitors_delete_s2 ==
  \E r \in inflight :
    /\ At(r, "visitors.delete", 2)
    /\ variant = "server"
    /\ AuditAndReply(r, AuditRow(r.recordId, r.userId, "DELETE_RECORD", NULL))
    /\ UNCHANGED <<env, userTables, error_logs, app_settings, visitor_records, nextId, checkin_records, inMemoryRecords>>

\* ---- selfCheckIn.submit
\* JavaScript's !x for a string or undefined
Falsy(x) == x \in {NULL, ""}

\* `SELF-${timestamp}-${randomSuffix}`
SelfRecordId(timestamp, randomSuffix) == <<"SELF", timestamp, randomSuffix>>

\* `VMS:${recordId}:${base64(recordId).substring(0, 12)}:${timestamp + 86400000}`
\* (the timestamp is the one inside recordId)
QrData(recordId) == <<"VMS:", recordId>>

Recv_selfCheckIn_submit ==
  /\ variant = "server"
  /\ \E name \in NameInputs, consent \in BOOLEAN, rnd \in RandSuffixes, t \in ClockReadings :
       LET r == [BlankReq EXCEPT !.op = "selfCheckIn.submit", !.fullName = name,
                                 !.consent = consent, !.userId = "self-checkin"]
           rid == SelfRecordId(t, rnd)
       IN IF Falsy(name)
          THEN AnswerAtOnce(r, FALSE, "validation") /\ UNCHANGED now
          ELSE Accept([r EXCEPT !.recordId = rid, !.qrCode = QrData(rid),
                                !.qrExpiry = t + DayTicks]) /\ now' = t
  /\ UNCHANGED <<deploy, store>>

selfCheckIn_submit_s1 ==
  \E r \in inflight :
    /\ At(r, "selfCheckIn.submit", 1)
    /\ variant = "server"
    /\ \E ok \in BOOLEAN :
         IF ok /\ InsertAllowed(r.recordId, r.fullName, "self-checkin")
         THEN /\ \E t \in ClockReadings :
                   /\ now' = t
                   /\ visitor_records' = visitor_records \cup
                        {Row(nextId, r.recordId, r.fullName, t, r.qrCode, r.qrExpiry)}
              /\ nextId' = nextId + 1
              /\ Continue(r, [r EXCEPT !.pc = 2, !.stmts = @ + 1,
                                       !.created = TRUE, !.committed = TRUE])
         ELSE /\ Thrown(r)
              /\ UNCHANGED <<now, visitor_records, nextId>>
    /\ UNCHANGED <<deploy, userTables, error_logs, app_settings, audit_logs, checkin_records, inMemoryRecords>>

selfCheckIn_submit_s2 ==
  \E r \in inflight :
    /\ At(r, "selfCheckIn.submit", 2)
    /\ variant = "server"
    /\ AuditAndReply(r, AuditRow(r.recordId, "self-checkin", "SELF_CHECK_IN", r.fullName))
    /\ UNCHANGED <<env, userTables, error_logs, app_settings, visitor_records, nextId, checkin_records, inMemoryRecords>>

ServerNext ==
  \/ Recv_visitors_checkIn \/ visitors_checkIn_s1 \/ visitors_checkIn_s2
  \/ Recv_visitors_checkOut \/ visitors_checkOut_s1 \/ visitors_checkOut_s2
  \/ Recv_visitors_update \/ visitors_update_s1 \/ visitors_update_s2
  \/ Recv_visitors_delete \/ visitors_delete_s1 \/ visitors_delete_s2
  \/ Recv_selfCheckIn_submit \/ selfCheckIn_submit_s1 \/ selfCheckIn_submit_s2

\* ===================================================== deployment "full"
\* ---- visitors.checkOut and visitors.forceCheckOut
FullCheckOutOps == {"visitors.checkOut", "visitors.forceCheckOut"}

Recv_full_checkOut(op, users) ==
  /\ variant = "full"
  /\ \E rid \in CallerIds \cup {v.record_id : v \in visitor_records}, u \in users :
       Accept([BlankReq EXCEPT !.op = op, !.recordId = rid, !.userId = u,
                 !.inAtRecv = \E v \in ByRecordId(rid) : v.status = "IN"])
  /\ UNCHANGED <<env, store>>

\* UPDATE ... SET status = 'OUT', check_out_time = CURRENT_TIMESTAMP WHERE record_id = $1
full_checkOut_s1(op) ==
  \E r \in inflight :
    /\ At(r, op, 1)
    /\ variant = "full"
    /\ \E ok \in BOOLEAN :
         IF ok
         THEN LET hit == ByRecordId(r.recordId) IN
              \E t \in ClockReadings :
                /\ now' = t
                /\ visitor_records' = CheckOutUpdate(hit, t)
                /\ Continue(r, [r EXCEPT !.pc = 2, !.stmts = @ + 1,
                     !.matched = Cardinality(hit),
                     !.hitOut = \E v \in hit : v.status = "OUT",
                     !.moved = \E v \in hit : v.status = "OUT" /\ v.check_out_time # t,
                     !.committed = TRUE])
         ELSE /\ Thrown(r)
              /\ UNCHANGED <<now, visitor_records>>
    /\ UNCHANGED <<deploy, userTables, error_logs, app_settings, nextId, audit_logs, checkin_records, inMemoryRecords>>

\* SELECT full_name ...; fullName = rows[0]?.full_name || 'Unknown'
full_checkOut_s2(op) ==
  \E r \in inflight :
    /\ At(r, op, 2)
    /\ variant = "full"
    /\ \E ok \in BOOLEAN :
         IF ok
         THEN LET hit == ByRecordId(r.recordId) IN
              \E name \in IF hit = {} THEN {"Unknown"}
                          ELSE {IF Falsy(v.full_name) THEN "Unknown" ELSE v.full_name : v \in hit} :
                Continue(r, [r EXCEPT !.pc = 3, !.stmts = @ + 1, !.selName = name])
         ELSE Thrown(r)
    /\ UNCHANGED <<env, store>>

full_checkOut_s3(op, action) ==
  \E r \in inflight :
    /\ At(r, op, 3)
    /\ variant = "full"
    /\ AuditAndReply(r, AuditRow(r.recordId, r.userId, action, r.selName))
    /\ UNCHANGED <<env, userTables, error_logs, app_settings, visitor_records, nextId, checkin_records, inMemoryRecords>>

Recv_full_visitors_checkOut == Recv_full_checkOut("visitors.checkOut", Actors)
full_visitors_checkOut_s1 == full_checkOut_s1("visitors.checkOut")
full_visitors_checkOut_s2 == full_checkOut_s2("visitors.checkOut")
full_visitors_checkOut_s3 == full_checkOut_s3("visitors.checkOut", "CHECK_OUT")

Recv_visitors_forceCheckOut == Recv_full_checkOut("visitors.forceCheckOut", Actors)
visitors_forceCheckOut_s1 == full_checkOut_s1("visitors.forceCheckOut")
visitors_forceCheckOut_s2 == full_checkOut_s2("visitors.forceCheckOut")
visitors_forceCheckOut_s3 == full_checkOut_s3("visitors.forceCheckOut", "FORCE_CHECK_OUT")

\* ---- visitors.update (by dbId, COALESCE per column)
\* userId || 'system'
OrSystem(u) == IF Falsy(u) THEN "system" ELSE u

DbIds == {0} \cup {v.id : v \in visitor_records}

Recv_full_visitors_update ==
  /\ variant = "full"
  /\ \E id \in DbIds, u \in {NULL}, patch \in {{}, {"phone"}} :
       Accept([BlankReq EXCEPT !.op = "visitors.update", !.dbId = id,
                               !.userId = u, !.patch = patch])
  /\ UNCHANGED <<env, store>>

\* full_name = COALESCE($1, full_name) ... WHERE id = $10
Coalesce(v, patch) ==
  [v EXCEPT !.full_name = IF "fullName" \in patch THEN PatchVal("fullName") ELSE @,
            !.phone = IF "phone" \in patch THEN PatchVal("phone") ELSE @]

full_visitors_update_s1 ==
  \E r \in inflight :
    /\ At(r, "visitors.update", 1)
    /\ variant = "full"
    /\ \E ok \in BOOLEAN :
         IF ok
         THEN LET hit == ByDbId(r.dbId) IN
              /\ visitor_records' = (visitor_records \ hit) \cup
                                      {Coalesce(v, r.patch) : v \in hit}
              /\ Continue(r, [r EXCEPT !.pc = 2, !.stmts = @ + 1,
                                !.matched = Cardinality(hit), !.committed = TRUE])
         ELSE /\ Thrown(r)
              /\ UNCHANGED visitor_records
    /\ UNCHANGED <<env, userTables, error_logs, app_settings, nextId, audit_logs, checkin_records, inMemoryRecords>>

full_visitors_update_s2 ==
  \E r \in inflight :
    /\ At(r, "visitors.update", 2)
    /\ variant = "full"
    /\ AuditAndReply(r, AuditRow(NullId, OrSystem(r.userId), "EDIT_RECORD", NULL))
    /\ UNCHANGED <<env, userTables, error_logs, app_settings, visitor_records, nextId, checkin_records, inMemoryRecords>>

\* ---- visitors.delete (by dbId)
Recv_full_visitors_delete ==
  /\ variant = "full"
  /\ \E id \in DbIds, u \in Actors :
       Accept([BlankReq EXCEPT !.op = "visitors.delete", !.dbId = id, !.userId = u])
  /\ UNCHANGED <<env, store>>

\* SELECT full_name ... WHERE id = $1; fullName = rows[0]?.full_name || 'Unknown'
full_visitors_delete_s1 ==
  \E r \in inflight :
    /\ At(r, "visitors.delete", 1)
    /\ variant = "full"
    /\ \E ok \in BOOLEAN :
         IF ok
         THEN LET hit == ByDbId(r.dbId) IN
              \E name \in IF hit = {} THEN {"Unknown"}
                          ELSE {IF Falsy(v.full_name) THEN "Unknown" ELSE v.full_name : v \in hit} :
                Continue(r, [r EXCEPT !.pc = 2, !.stmts = @ + 1, !.selName = name])
         ELSE Thrown(r)
    /\ UNCHANGED <<env, store>>

full_visitors_delete_s2 ==
  \E r \in inflight :
    /\ At(r, "visitors.delete", 2)
    /\ variant = "full"
    /\ \E ok \in BOOLEAN :
         IF ok
         THEN LET hit == ByDbId(r.dbId) IN
              /\ visitor_records' = visitor_records \ hit
              /\ Continue(r, [r EXCEPT !.pc = 3, !.stmts = @ + 1,
                                !.matched = Cardinality(hit), !.committed = TRUE,
                                !.gone = IF hit = {} THEN NULL
                                         ELSE (CHOOSE v \in hit : TRUE).full_name])
         ELSE /\ Thrown(r)
              /\ UNCHANGED visitor_records
    /\ UNCHANGED <<env, userTables, error_logs, app_settings, nextId, audit_logs, checkin_records, inMemoryRecords>>

full_visitors_delete_s3 ==
  \E r \in inflight :
    /\ At(r, "visitors.delete", 3)
    /\ variant = "full"
    /\ AuditAndReply(r, AuditRow(NullId, OrSystem(r.userId), "DELETE_RECORD", r.selName))
    /\ UNCHANGED <<env, userTables, error_logs, app_settings, visitor_records, nextId, checkin_records, inMemoryRecords>>

\* ---- selfCheckIn.submit
\* `VMS-${recordId}`
FullQrCode(recordId) == <<"VMS-", recordId>>

Recv_full_selfCheckIn_submit ==
  /\ variant = "full"
  /\ \E name \in NameInputs, consent \in BOOLEAN, rnd \in RandSuffixes, t \in ClockReadings :
       LET r == [BlankReq EXCEPT !.op = "selfCheckIn.submit", !.fullName = name,
                                 !.consent = consent, !.userId = "self-checkin"]
           rid == SelfRecordId(t, rnd)
       IN IF ~consent
          THEN AnswerAtOnce(r, FALSE, "consent") /\ UNCHANGED now
          ELSE Accept([r EXCEPT !.recordId = rid, !.qrCode = FullQrCode(rid),
                                !.qrExpiry = t + DayTicks]) /\ now' = t
  /\ UNCHANGED <<deploy, store>>

full_selfCheckIn_submit_s1 ==
  \E r \in inflight :
    /\ At(r, "selfCheckIn.submit", 1)
    /\ variant = "full"
    /\ \E ok \in BOOLEAN :
         IF ok /\ InsertAllowed(r.recordId, r.fullName, "self-checkin")
         THEN /\ \E t \in ClockReadings :
                   /\ now' = t
                   /\ visitor_records' = visitor_records \cup
                        {Row(nextId, r.recordId, r.fullName, t, r.qrCode, r.qrExpiry)}
              /\ nextId' = nextId + 1
              /\ Continue(r, [r EXCEPT !.pc = 2, !.stmts = @ + 1,
                                       !.created = TRUE, !.committed = TRUE])
         ELSE /\ Thrown(r)
              /\ UNCHANGED <<now, visitor_records, nextId>>
    /\ UNCHANGED <<deploy, userTables, error_logs, app_settings, audit_logs, checkin_records, inMemoryRecords>>

full_selfCheckIn_submit_s2 ==
  \E r \in inflight :
    /\ At(r, "selfCheckIn.submit", 2)
    /\ variant = "full"
    /\ AuditAndReply(r, AuditRow(r.recordId, "self-checkin", "SELF_CHECK_IN", r.fullName))
    /\ UNCHANGED <<env, userTables, error_logs, app_settings, visitor_records, nextId, checkin_records, inMemoryRecords>>

\* ---- selfCheckIn.checkOut (check-out by qr token)
Recv_selfCheckIn_checkOut ==
  /\ variant = "full"
  /\ \E qr \in CallerQrs \cup {v.qr_code : v \in visitor_records} :
       Accept([BlankReq EXCEPT !.op = "selfCheckIn.checkOut", !.qrCode = qr,
                 !.userId = "self-checkout",
                 !.inAtRecv = \E v \in ByQrCode(qr) : v.status = "IN"])
  /\ UNCHANGED <<env, store>>

\* SELECT * ... WHERE qr_code = $1; record = rows[0]; the two early returns
selfCheckIn_checkOut_s1 ==
  \E r \in inflight :
    /\ At(r, "selfCheckIn.checkOut", 1)
    /\ variant = "full"
    /\ \E ok \in BOOLEAN :
         IF ok
         THEN LET hit == ByQrCode(r.qrCode)
                  r1  == [r EXCEPT !.stmts = @ + 1, !.matched = Cardinality(hit)]
              IN IF hit = {}
                 THEN Reply(r, r1, FALSE, "notFound")
                 ELSE \E record \in hit :
                        LET r2 == [r1 EXCEPT !.selId = record.record_id,
                                             !.selName = record.full_name,
                                             !.hitOut = record.status = "OUT"]
                        IN IF record.status = "OUT"
                           THEN Reply(r, r2, FALSE, "alreadyOut")
                           ELSE Continue(r, [r2 EXCEPT !.pc = 2])
         ELSE Thrown(r)
    /\ UNCHANGED <<env, store>>

\* UPDATE ... SET status = 'OUT', check_out_time = CURRENT_TIMESTAMP WHERE qr_code = $1
selfCheckIn_checkOut_s2 ==
  \E r \in inflight :
    /\ At(r, "selfCheckIn.checkOut", 2)
    /\ variant = "full"
    /\ \E ok \in BOOLEAN :
         IF ok
         THEN LET hit == ByQrCode(r.qrCode) IN
              \E t \in ClockReadings :
                /\ now' = t
                /\ visitor_records' = CheckOutUpdate(hit, t)
                /\ Continue(r, [r EXCEPT !.pc = 3, !.stmts = @ + 1,
                     !.matched = Cardinality(hit),
                     !.hitOut = \E v \in hit : v.status = "OUT",
                     !.moved = \E v \in hit : v.status = "OUT" /\ v.check_out_time # t,
                     !.committed = TRUE])
         ELSE /\ Thrown(r)
              /\ UNCHANGED <<now, visitor_records>>
    /\ UNCHANGED <<deploy, userTables, error_logs, app_settings, nextId, audit_logs, checkin_records, inMemoryRecords>>

selfCheckIn_checkOut_s3 ==
  \E r \in inflight :
    /\ At(r, "selfCheckIn.checkOut", 3)
    /\ variant = "full"
    /\ AuditAndReply(r, AuditRow(r.selId, "self-checkout", "CHECK_OUT", r.selName))
    /\ UNCHANGED <<env, userTables, error_logs, app_settings, visitor_records, nextId, checkin_records, inMemoryRecords>>

FullNext ==
  \/ Recv_full_visitors_checkOut \/ full_visitors_checkOut_s1
  \/ full_visitors_checkOut_s2 \/ full_visitors_checkOut_s3
  \/ Recv_visitors_forceCheckOut \/ visitors_forceCheckOut_s1
  \/ visitors_forceCheckOut_s2 \/ visitors_forceCheckOut_s3
  \/ Recv_full_visitors_update \/ full_visitors_update_s1 \/ full_visitors_update_s2
  \/ Recv_full_visitors_delete \/ full_visitors_delete_s1
  \/ full_visitors_delete_s2 \/ full_visitors_delete_s3
  \/ Recv_full_selfCheckIn_submit \/ full_selfCheckIn_submit_s1 \/ full_selfCheckIn_submit_s2
  \/ Recv_selfCheckIn_checkOut \/ selfCheckIn_checkOut_s1
  \/ selfCheckIn_checkOut_s2 \/ selfCheckIn_checkOut_s3

\* ===================================================== deployment "lite"
LiteRecord(rid, name, qr, t) ==
  [record_id |-> rid, full_name |-> name, status |-> "checked_in",
   check_in_time |-> t, check_out_time |-> NoTime, qr_code |-> qr]

LiteSetOut(v, t) == [v EXCEPT !.status = "checked_out", !.check_out_time = t]

\* generateRecordId()
generateRecordId(timestamp, random) == SelfRecordId(timestamp, random)

\* generateQRCode(recordId).qrCode: `VMS:${recordId}:${signature}:${expiry}`
generateQRCode(recordId) == <<"VMS:", recordId>>

\* Index of the first element of the array with this recordId, 0 if none
\* (Array.prototype.find)
FindFirst(rid) ==
  LET hits == {i \in 1..Len(inMemoryRecords) : inMemoryRecords[i].record_id = rid}
  IN IF hits = {} THEN 0 ELSE CHOOSE i \in hits : \A j \in hits : i <= j

\* ---- selfCheckIn.submit
Recv_lite_submit ==
  /\ variant = "lite"
  /\ \E name \in NameInputs, complete \in BOOLEAN, rnd \in LiteSuffixes,
        t \in ClockReadings :
       LET r   == [BlankReq EXCEPT !.op = "selfCheckIn.submit", !.fullName = name,
                                   !.complete = complete]
           rid == generateRecordId(t, rnd)
           r1  == [r EXCEPT !.recordId = rid, !.qrCode = generateQRCode(rid)]
       IN IF Falsy(name) \/ ~complete
          THEN /\ AnswerAtOnce(r, FALSE, "validation")
               /\ UNCHANGED <<now, inMemoryRecords>>
          ELSE IF hasDb
          THEN /\ Accept(r1)
               /\ now' = t
               /\ UNCHANGED inMemoryRecords
          ELSE /\ inMemoryRecords' =
                    Append(inMemoryRecords, LiteRecord(rid, name, r1.qrCode, t))
               /\ now' = t
               /\ AnswerAtOnce([r1 EXCEPT !.created = TRUE], TRUE, "none")
  /\ UNCHANGED <<deploy, userTables, error_logs, app_settings, visitor_records, nextId, audit_logs, checkin_records>>

\* INSERT INTO checkin_records ...; a failure is caught and only logged
lite_submit_s1 ==
  \E r \in inflight :
    /\ At(r, "selfCheckIn.submit", 1)
    /\ variant = "lite"
    /\ \E ok \in BOOLEAN :
         IF ok /\ \A v \in checkin_records : v.record_id # r.recordId
         THEN \E t \in ClockReadings :
                /\ now' = t
                /\ checkin_records' = checkin_records \cup
                     {LiteRecord(r.recordId, r.fullName, r.qrCode, t)}
                /\ Reply(r, [r EXCEPT !.stmts = @ + 1, !.created = TRUE,
                                      !.committed = TRUE], TRUE, "none")
         ELSE /\ Reply(r, [r EXCEPT !.stmts = @ + 1], TRUE, "none")
              /\ UNCHANGED <<now, checkin_records>>
    /\ UNCHANGED <<deploy, userTables, error_logs, app_settings, visitor_records, nextId, audit_logs, inMemoryRecords>>

\* ---- selfCheckIn.checkOut (by recordId)
Recv_lite_checkOut ==
  /\ variant = "lite"
  /\ \E rid \in CallerIds \cup {v.record_id : v \in checkin_records}
                  \cup {inMemoryRecords[i].record_id : i \in 1..Len(inMemoryRecords)} :
       LET r == [BlankReq EXCEPT !.op = "selfCheckIn.checkOut", !.recordId = rid]
           i == FindFirst(rid)
       IN IF hasDb
          THEN /\ Accept([r EXCEPT !.inAtRecv =
                   \E v \in checkin_records :
                      v.record_id = rid /\ v.status = "checked_in"])
               /\ UNCHANGED <<now, inMemoryRecords>>
          ELSE IF i = 0
          THEN /\ AnswerAtOnce([r EXCEPT !.matched = 0], TRUE, "none")
               /\ UNCHANGED <<now, inMemoryRecords>>
          ELSE \E t \in ClockReadings :
                 /\ now' = t
                 /\ inMemoryRecords' =
                      [inMemoryRecords EXCEPT ![i] = LiteSetOut(@, t)]
                 /\ AnswerAtOnce(
                      [r EXCEPT !.matched = 1, !.committed = TRUE,
                         !.inAtRecv = inMemoryRecords[i].status = "checked_in",
                         !.hitOut = inMemoryRecords[i].status = "checked_out",
                         !.moved = inMemoryRecords[i].status = "checked_out"
                                   /\ inMemoryRecords[i].check_out_time # t],
                      TRUE, "none")
  /\ UNCHANGED <<deploy, userTables, error_logs, app_settings, visitor_records, nextId, audit_logs, checkin_records>>

\* UPDATE checkin_records SET status = 'checked_out', check_out_time = ... WHERE record_id = $1
lite_checkOut_s1 ==
  \E r \in inflight :
    /\ At(r, "selfCheckIn.checkOut", 1)
    /\ variant = "lite"
    /\ \E ok \in BOOLEAN :
         IF ok
         THEN LET hit == {v \in checkin_records : v.record_id = r.recordId} IN
              \E t \in ClockReadings :
                /\ now' = t
                /\ checkin_records' = (checkin_records \ hit) \cup
                                        {LiteSetOut(v, t) : v \in hit}
                /\ Reply(r, [r EXCEPT !.stmts = @ + 1, !.committed = TRUE,
                               !.matched = Cardinality(hit),
                               !.hitOut = \E v \in hit : v.status = "checked_out",
                               !.moved = \E v \in hit : v.status = "checked_out"
                                                        /\ v.check_out_time # t],
                         TRUE, "none")
         ELSE /\ Thrown(r)
              /\ UNCHANGED <<now, checkin_records>>
    /\ UNCHANGED <<deploy, userTables, error_logs, app_settings, visitor_records, nextId, audit_logs, inMemoryRecords>>

LiteNext ==
  \/ Recv_lite_submit \/ lite_submit_s1
  \/ Recv_lite_checkOut \/ lite_checkOut_s1

Next == ServerNext \/ FullNext \/ LiteNext

Spec == Init /\ [][Next]_vars

\* ======================================================= auditLogs.list
\* server.js 730-745 and README.md 878-893: the same statement,
\* SELECT * FROM audit_logs ORDER BY timestamp DESC LIMIT 500
ListLimit == 500

Min(a, b) == IF a <= b THEN a ELSE b

\* (a list without LIMIT)
Newest_noLimit(log, n) == [j \in 1..Len(log) |-> log[Len(log) - j + 1]]

\* ORDER BY timestamp DESC LIMIT n: audit_logs is kept in insertion order,
\* which is the order of the rows' timestamps (DEFAULT NOW())
Newest(log, n) == [j \in 1..Min(Len(log), n) |-> log[Len(log) - j + 1]]

Recv_auditLogs_list ==
  /\ variant \in {"server", "full"}
  /\ Accept([BlankReq EXCEPT !.op = "auditLogs.list"])
  /\ UNCHANGED <<env, store>>

\* a failed SELECT: server.js answers the empty list, README.md status 500
auditLogs_list_s1 ==
  \E r \in inflight :
    /\ At(r, "auditLogs.list", 1)
    /\ \E ok \in BOOLEAN :
         IF ok
         THEN Reply(r, [r EXCEPT !.stmts = @ + 1, !.total = Len(audit_logs),
                                 !.rows = Newest(audit_logs, ListLimit)],
                    TRUE, "none")
         ELSE Reply(r, [r EXCEPT !.stmts = @ + 1], variant = "server", "storage")
    /\ UNCHANGED <<env, store>>

\* an audit entry that concerns no visitor record: the one settings.update
\* without userId appends (server.js 714-717)
OtherAudit == AuditRow(NullId, "system", "SETTINGS_UPDATED", "App settings updated")

\* The log at start-up: the check-in entry of the seeded record, followed by
\* the entries later requests have appended: none, or so many that the log
\* is about to reach, reaches or exceeds the limit of the list.
OlderCounts == {0} \cup {k \in 0..MaxOlder : k >= ListLimit - 2}

AuditInit ==
  /\ variant \in {"server", "full"}
  /\ hasDb = TRUE
  /\ now = 0
  /\ visitor_records = {SeedRow}
  /\ nextId = 2
  /\ \E k \in OlderCounts : audit_logs = <<SeedAudit>> \o [i \in 1..k |-> OtherAudit]
  /\ checkin_records = {}
  /\ inMemoryRecords = <<>>
  /\ app_settings = SettingsAtStart(variant)
  /\ app_users = UsersAtStart(variant)
  /\ nextUserId = 3
  /\ error_logs = {}
  /\ inflight = {}
  /\ nreq = 0
  /\ last = BlankReq

AuditNext ==
  \/ Recv_visitors_delete \/ visitors_delete_s1 \/ visitors_delete_s2
  \/ Recv_full_visitors_delete \/ full_visitors_delete_s1
  \/ full_visitors_delete_s2 \/ full_visitors_delete_s3
  \/ Recv_auditLogs_list \/ auditLogs_list_s1

AuditSpec == AuditInit /\ [][AuditNext]_vars

\* ================================================== stats.today, visitors.stats
\* today.setHours(0, 0, 0, 0): the start of the day of clock value t
StartOfDay(t) == t - (t % DayTicks)

Recv_stats_today ==
  /\ variant = "server"
  /\ Accept([BlankReq EXCEPT !.op = "stats.today", !.today = StartOfDay(now)])
  /\ UNCHANGED <<env, store>>

\* SELECT * FROM visitor_records WHERE check_in_time >= today, then the three
\* counts over the rows selected; the catch answers three zeros
stats_today_s1 ==
  \E r \in inflight :
    /\ At(r, "stats.today", 1)
    /\ \E ok \in BOOLEAN :
         IF ok
         THEN LET records == {v \in visitor_records : v.check_in_time >= r.today}
              IN  Reply(r, [r EXCEPT !.stmts = @ + 1,
                      !.todayIn  = Cardinality(records),
                      !.todayOut = Cardinality({v \in records : v.status = "OUT"}),
                      !.pending  = Cardinality({v \in records : v.status = "IN"})],
                    TRUE, "none")
         ELSE Reply(r, [r EXCEPT !.stmts = @ + 1], TRUE, "storage")
    /\ UNCHANGED <<env, store>>

Recv_full_visitors_stats ==
  /\ variant = "full"
  /\ Accept([BlankReq EXCEPT !.op = "visitors.stats", !.today = StartOfDay(now)])
  /\ UNCHANGED <<env, store>>

\* SELECT * FROM visitor_records, then the three counts over all rows; the
\* catch answers status 500
full_visitors_stats_s1 ==
  \E r \in inflight :
    /\ At(r, "visitors.stats", 1)
    /\ \E ok \in BOOLEAN :
         IF ok
         THEN LET records == visitor_records
              IN  Reply(r, [r EXCEPT !.stmts = @ + 1,
                      !.todayIn  = Cardinality({v \in records : v.check_in_time >= r.today}),
                      !.todayOut = Cardinality({v \in records :
                                      /\ v.check_out_time # NoTime
                                      /\ v.check_out_time >= r.today}),
                      !.pending  = Cardinality({v \in records : v.status = "IN"})],
                    TRUE, "none")
         ELSE Reply(r, [r EXCEPT !.stmts = @ + 1], FALSE, "storage")
    /\ UNCHANGED <<env, store>>

\* the clock advances while no request is being handled
StatsTick ==
  /\ now < MaxStatsTime
  /\ inflight = {}
  /\ now' = now + 1
  /\ UNCHANGED <<deploy, store, inflight, nreq, last>>

\* a row checked in at cin and, unless cout is NoTime, checked out at cout
StatsRow(id, cin, cout) ==
  [SeedRow EXCEPT !.id = id, !.record_id = <<"APP", 0, id - 1>>,
                  !.check_in_time = cin, !.check_out_time = cout,
                  !.status = IF cout = NoTime THEN "IN" ELSE "OUT"]

\* the tables at start-up: up to two rows, checked in (and out) at any
\* time up to now
StatsTables(t) ==
  LET rows(id) == {StatsRow(id, cin, cout) :
                     cin \in 0..t, cout \in {NoTime} \cup 0..t}
      wf(v)    == v.check_out_time = NoTime \/ v.check_out_time >= v.check_in_time
      one      == {v \in rows(1) : wf(v)}
      two      == {v \in rows(2) : wf(v)}
  IN  {{}} \cup {{v} : v \in one} \cup {{v, w} : v \in one, w \in two}

StatsInit ==
  /\ variant \in {"server", "full"}
  /\ hasDb = TRUE
  /\ now \in 0..MaxStatsTime
  /\ visitor_records \in StatsTables(now)
  /\ nextId = Cardinality(visitor_records) + 1
  /\ audit_logs = <<>>
  /\ checkin_records = {}
  /\ inMemoryRecords = <<>>
  /\ app_settings = SettingsAtStart(variant)
  /\ app_users = UsersAtStart(variant)
  /\ nextUserId = 3
  /\ error_logs = {}
  /\ inflight = {}
  /\ nreq = 0
  /\ last = BlankReq

StatsNext ==
  \/ Recv_stats_today \/ stats_today_s1
  \/ Recv_full_visitors_stats \/ full_visitors_stats_s1
  \/ StatsTick

StatsSpec == StatsInit /\ [][StatsNext]_vars

\* ============================================ settings.get, settings.update
\* server.js 667-724 and README.md 765-820 (the same statements), and
\* email.updateSettings of README.md 842-872
SettingsKeys == <<"consentText", "retentionDays", "notificationTime">>
EmailKeys    == <<"emailEnabled", "emailRecipient", "emailSendTime", "emailIncludeDetails">>

\* the bodies of the settings.update requests considered, per field: absent,
\* or one of the values listed
ConsentInputs      == {{}, {<<>>}, {<<"o", "k">>}}
RetentionInputs    == {{}, {Num(7)}, {Str(<<"a", "b", "c">>)}}
NotificationInputs == {{}, {<<"0", "8", ":", "3", "0">>}}

\* settings[k] || d, over the rows the SELECT returned: d when no row has key
\* k and when the value is the empty string
OrDefault(rows, k, d) ==
  LET vs == {x.value : x \in {y \in rows : y.key = k}}
  IN  IF vs = {} \/ vs = {<<>>} THEN d ELSE CHOOSE v \in vs : TRUE

Recv_settings_get ==
  /\ variant \in {"server", "full"}
  /\ Accept([BlankReq EXCEPT !.op = "settings.get"])
  /\ UNCHANGED <<env, store>>

\* a failed SELECT: server.js answers the three defaults, README.md status 500
settings_get_s1 ==
  \E r \in inflight :
    /\ At(r, "settings.get", 1)
    /\ \E ok \in BOOLEAN :
         IF ok
         THEN Reply(r, [r EXCEPT !.stmts = @ + 1, !.settings = app_settings,
                  !.consentText = OrDefault(app_settings, "consentText", DefaultConsentText),
                  !.retentionDays =
                     ParseInt(OrDefault(app_settings, "retentionDays", DefaultRetentionDays)),
                  !.notificationTime =
                     OrDefault(app_settings, "notificationTime", DefaultNotificationTime)],
                TRUE, "none")
         ELSE IF variant = "server"
         THEN Reply(r, [r EXCEPT !.stmts = @ + 1,
                  !.consentText = DefaultConsentText,
                  !.retentionDays = JsNumber(90),
                  !.notificationTime = DefaultNotificationTime],
                TRUE, "storage")
         ELSE Reply(r, [r EXCEPT !.stmts = @ + 1], FALSE, "storage")
    /\ UNCHANGED <<env, store>>

\* the value settings.update writes under its k-th key ({}: the field is absent)
UpdateValue(r, k) ==
  CASE k = 1 -> r.inConsent
    [] k = 2 -> {JsToString(x) : x \in r.inRetention}
    [] k = 3 -> r.inNotification

\* the first statement from the k-th on that the handler issues: the upsert
\* of the first key present, or (4) the audit insert
RECURSIVE NextStmt(_, _)
NextStmt(r, k) ==
  IF k > 3 THEN 4 ELSE IF UpdateValue(r, k) # {} THEN k ELSE NextStmt(r, k + 1)

Recv_settings_update ==
  /\ variant \in {"server", "full"}
  /\ \E c \in ConsentInputs, d \in RetentionInputs, t \in NotificationInputs,
        by \in UserIds :
       LET r == [BlankReq EXCEPT !.op = "settings.update", !.userId = by,
                                 !.inConsent = c, !.inRetention = d,
                                 !.inNotification = t]
       IN  AcceptAt(r, NextStmt(r, 1))
  /\ UNCHANGED <<env, store>>

\* one of the (up to) three upserts
settings_update_upsert ==
  \E r \in inflight :
    /\ r.op = "settings.update" /\ r.pc \in 1..3
    /\ \E ok \in BOOLEAN, t \in ClockReadings :
         IF ok
         THEN /\ now' = t
              /\ app_settings' = Upsert(app_settings, SettingsKeys[r.pc],
                                        CHOOSE v \in UpdateValue(r, r.pc) : TRUE, t)
              /\ Continue(r, [r EXCEPT !.pc = NextStmt(r, r.pc + 1), !.stmts = @ + 1,
                     !.written = @ \cup {[key |-> SettingsKeys[r.pc], at |-> t]}])
         ELSE /\ Thrown(r)
              /\ UNCHANGED <<now, app_settings>>
    /\ UNCHANGED <<deploy, userTables, error_logs, visitor_records, nextId, audit_logs, checkin_records,
                   inMemoryRecords>>

SettingsAudit(by) ==
  AuditRow(NullId, IF by = NULL THEN "system" ELSE by, "SETTINGS_UPDATED",
           "App settings updated")

settings_update_audit ==
  \E r \in inflight :
    /\ At(r, "settings.update", 4)
    /\ AuditAndReply(r, SettingsAudit(r.userId))
    /\ UNCHANGED <<env, userTables, error_logs, visitor_records, nextId, checkin_records, inMemoryRecords,
                   app_settings>>

\* README.md 842-872: four upserts, all unconditional, then the audit insert
Recv_full_email_updateSettings ==
  /\ variant = "full"
  /\ \E enabled \in BOOLEAN, by \in UserIds :
       Accept([BlankReq EXCEPT !.op = "email.updateSettings", !.userId = by,
                               !.inEnabled = enabled])
  /\ UNCHANGED <<env, store>>

\* the value email.updateSettings writes under its k-th key: the request
\* sends recipientEmail 'a@b', sendTime '08:00' and includeDetails false
EmailValue(r, k) ==
  CASE k = 1 -> BoolToString(r.inEnabled)
    [] k = 2 -> <<"a", "@", "b">>
    [] k = 3 -> <<"0", "8", ":", "0", "0">>
    [] k = 4 -> BoolToString(FALSE)

full_email_updateSettings_upsert ==
  \E r \in inflight :
    /\ r.op = "email.updateSettings" /\ r.pc \in 1..4
    /\ \E ok \in BOOLEAN, t \in ClockReadings :
         IF ok
         THEN /\ now' = t
              /\ app_settings' = Upsert(app_settings, EmailKeys[r.pc], EmailValue(r, r.pc), t)
              /\ Continue(r, [r EXCEPT !.pc = @ + 1, !.stmts = @ + 1,
                     !.written = @ \cup {[key |-> EmailKeys[r.pc], at |-> t]}])
         ELSE /\ Thrown(r)
              /\ UNCHANGED <<now, app_settings>>
    /\ UNCHANGED <<deploy, userTables, error_logs, visitor_records, nextId, audit_logs, checkin_records,
                   inMemoryRecords>>

EmailAudit(by, enabled) ==
  AuditRow(NullId, IF by = NULL THEN "system" ELSE by, "EMAIL_SETTINGS_UPDATED",
           IF enabled THEN "Email settings updated: enabled=true, time=08:00"
           ELSE "Email settings updated: enabled=false, time=08:00")

full_email_updateSettings_audit ==
  \E r \in inflight :
    /\ At(r, "email.updateSettings", 5)
    /\ AuditAndReply(r, EmailAudit(r.userId, r.inEnabled))
    /\ UNCHANGED <<env, userTables, error_logs, visitor_records, nextId, checkin_records, inMemoryRecords,
                   app_settings>>

SettingsInit ==
  /\ variant \in {"server", "full"}
  /\ hasDb = TRUE
  /\ now = 0
  /\ visitor_records = {}
  /\ nextId = 1
  /\ audit_logs = <<>>
  /\ checkin_records = {}
  /\ inMemoryRecords = <<>>
  /\ app_settings = SettingsAtStart(variant)
  /\ app_users = UsersAtStart(variant)
  /\ nextUserId = 3
  /\ error_logs = {}
  /\ inflight = {}
  /\ nreq = 0
  /\ last = BlankReq

SettingsNext ==
  \/ Recv_settings_get \/ settings_get_s1
  \/ Recv_settings_update \/ settings_update_upsert \/ settings_update_audit
  \/ Recv_full_email_updateSettings \/ full_email_updateSettings_upsert
  \/ full_email_updateSettings_audit

SettingsSpec == SettingsInit /\ [][SettingsNext]_vars

\* ==================================================== appUsers (server.js)
\* server.js 177-321.  The columns name, created_at and updated_at of a user
\* row take no part in any condition of these handlers; name is kept, the two
\* timestamps are left out.
\* the (username, password) pairs of the appUsers.login requests considered
LoginInputs ==
  {<<"admin", "admin123">>, <<"admin", "wrong">>, <<"bob", "pw">>, <<NULL, "admin123">>}
\* the usernames of the appUsers.create requests considered (password 'pw')
CreateNames == {"bob", "admin"}
\* the ids appUsers.update and appUsers.delete requests name: the
\* administrator, and the first user created after start-up
UserIdInputs == {1, 3}
\* the password / isActive fields of appUsers.update ("absent": not sent)
PasswordInputs == {NULL, "new"}
ActiveInputs   == {"absent", "false", "true"}

\* (a login query that does not look at is_active)
LoginRows_ignoreActive(u, p) ==
  {x \in app_users : x.username = u /\ x.password_hash = p}

\* SELECT * FROM app_users
\*   WHERE username = u AND password_hash = p AND is_active = true
LoginRows(u, p) ==
  {x \in app_users : x.username = u /\ x.password_hash = p /\ x.is_active}

\* the audit rows of this deployment carry the username as their details
\* (`User ${username} logged in`, `User ${username} created`)
LoginAudit(u)  == AuditRow(NullId, u, "USER_LOGIN", u)
CreateAudit(u) == AuditRow(NullId, "system", "USER_CREATED", u)

Recv_appUsers_login ==
  /\ variant = "server"
  /\ \E in \in LoginInputs :
       LET r == [BlankReq EXCEPT !.op = "appUsers.login", !.username = in[1],
                                 !.password = in[2]]
       IN  IF in[1] = NULL \/ in[2] = NULL
           THEN AnswerAtOnce(r, FALSE, "validation")
           ELSE Accept(r)
  /\ UNCHANGED <<env, store>>

appUsers_login_s1 ==
  \E r \in inflight :
    /\ At(r, "appUsers.login", 1)
    /\ \E ok \in BOOLEAN :
         IF ~ok THEN Thrown(r)
         ELSE IF LoginRows(r.username, r.password) = {}
         THEN Reply(r, [r EXCEPT !.stmts = @ + 1, !.matched = 0], FALSE, "credentials")
         ELSE \E x \in LoginRows(r.username, r.password) :
                Continue(r, [r EXCEPT !.pc = 2, !.stmts = @ + 1, !.matched = 1,
                                      !.selUser = x.id, !.role = x.role])
    /\ UNCHANGED <<env, store>>

appUsers_login_s2 ==
  \E r \in inflight :
    /\ At(r, "appUsers.login", 2)
    /\ AuditAndReply(r, LoginAudit(r.username))
    /\ UNCHANGED <<env, userTables, error_logs, visitor_records, nextId,
                   checkin_records, inMemoryRecords, app_settings>>

Recv_appUsers_create ==
  /\ variant = "server"
  /\ \E u \in CreateNames :
       Accept([BlankReq EXCEPT !.op = "appUsers.create", !.username = u,
                               !.password = "pw"])
  /\ UNCHANGED <<env, store>>

\* SELECT id FROM app_users WHERE username = $1
appUsers_create_s1 ==
  \E r \in inflight :
    /\ At(r, "appUsers.create", 1)
    /\ \E ok \in BOOLEAN :
         IF ~ok THEN Thrown(r)
         ELSE IF \E x \in app_users : x.username = r.username
         THEN Reply(r, [r EXCEPT !.stmts = @ + 1, !.matched = 1], FALSE, "exists")
         ELSE Continue(r, [r EXCEPT !.pc = 2, !.stmts = @ + 1, !.matched = 0])
    /\ UNCHANGED <<env, store>>

\* (a table whose username column has no UNIQUE constraint)
UserInsertAllowed_noUnique(u) == u # NULL

\* app_users: username UNIQUE NOT NULL
UserInsertAllowed(u) == u # NULL /\ \A x \in app_users : x.username # u

\* INSERT INTO app_users (...) VALUES (..., true) RETURNING id: a failed
\* INSERT has drawn its id from the sequence all the same
appUsers_create_s2 ==
  \E r \in inflight :
    /\ At(r, "appUsers.create", 2)
    /\ \E ok \in BOOLEAN :
         IF ~ok
         THEN Thrown(r) /\ UNCHANGED userTables
         ELSE IF ~UserInsertAllowed(r.username)
         THEN /\ Reply(r, [r EXCEPT !.stmts = @ + 1], FALSE, "conflict")
              /\ nextUserId' = nextUserId + 1
              /\ UNCHANGED app_users
         ELSE /\ app_users' = app_users \cup
                   {UserRow(nextUserId, r.username, r.password, r.username, "user", TRUE)}
              /\ nextUserId' = nextUserId + 1
              /\ Continue(r, [r EXCEPT !.pc = 3, !.stmts = @ + 1, !.created = TRUE,
                                       !.newUserId = nextUserId])
    /\ UNCHANGED <<env, error_logs, visitor_records, nextId, audit_logs,
                   checkin_records, inMemoryRecords, app_settings>>

appUsers_create_s3 ==
  \E r \in inflight :
    /\ At(r, "appUsers.create", 3)
    /\ AuditAndReply(r, CreateAudit(r.username))
    /\ UNCHANGED <<env, userTables, error_logs, visitor_records, nextId,
                   checkin_records, inMemoryRecords, app_settings>>

\* the request sends neither name nor role; without password and isActive the
\* handler has no column to set and answers success without a statement
Recv_appUsers_update ==
  /\ variant = "server"
  /\ \E id \in UserIdInputs, p \in PasswordInputs, a \in ActiveInputs :
       LET r == [BlankReq EXCEPT !.op = "appUsers.update", !.userDbId = id,
                                 !.password = p, !.isActive = a]
       IN  IF p = NULL /\ a = "absent"
           THEN AnswerAtOnce(r, TRUE, "none")
           ELSE Accept(r)
  /\ UNCHANGED <<env, store>>

\* UPDATE app_users SET <columns sent>, updated_at = NOW() WHERE id = $n
UserUpdate(x, p, a) ==
  [x EXCEPT !.password_hash = IF p = NULL THEN @ ELSE p,
            !.is_active = IF a = "absent" THEN @ ELSE (a = "true")]

appUsers_update_s1 ==
  \E r \in inflight :
    /\ At(r, "appUsers.update", 1)
    /\ \E ok \in BOOLEAN :
         IF ~ok THEN Thrown(r) /\ UNCHANGED app_users
         ELSE LET hit == {x \in app_users : x.id = r.userDbId}
              IN  /\ app_users' = (app_users \ hit) \cup
                                  {UserUpdate(x, r.password, r.isActive) : x \in hit}
                  /\ Reply(r, [r EXCEPT !.stmts = @ + 1, !.matched = Cardinality(hit)],
                           TRUE, "none")
    /\ UNCHANGED <<env, nextUserId, error_logs, visitor_records, nextId, audit_logs,
                   checkin_records, inMemoryRecords, app_settings>>

Recv_appUsers_delete ==
  /\ variant = "server"
  /\ \E id \in UserIdInputs :
       Accept([BlankReq EXCEPT !.op = "appUsers.delete", !.userDbId = id])
  /\ UNCHANGED <<env, store>>

\* DELETE FROM app_users WHERE id = $1
appUsers_delete_s1 ==
  \E r \in inflight :
    /\ At(r, "appUsers.delete", 1)
    /\ \E ok \in BOOLEAN :
         IF ~ok THEN Thrown(r) /\ UNCHANGED app_users
         ELSE LET hit == {x \in app_users : x.id = r.userDbId}
              IN  /\ app_users' = app_users \ hit
                  /\ Reply(r, [r EXCEPT !.stmts = @ + 1, !.matched = Cardinality(hit)],
                           TRUE, "none")
    /\ UNCHANGED <<env, nextUserId, error_logs, visitor_records, nextId, audit_logs,
                   checkin_records, inMemoryRecords, app_settings>>

UsersInit ==
  /\ variant = "server"
  /\ hasDb = TRUE
  /\ now = 0
  /\ visitor_records = {}
  /\ nextId = 1
  /\ audit_logs = <<>>
  /\ checkin_records = {}
  /\ inMemoryRecords = <<>>
  /\ app_settings = SettingsAtStart(variant)
  /\ app_users = UsersAtStart(variant)
  /\ nextUserId = 3
  /\ error_logs = {}
  /\ inflight = {}
  /\ nreq = 0
  /\ last = BlankReq

UsersNext ==
  \/ Recv_appUsers_login \/ appUsers_login_s1 \/ appUsers_login_s2
  \/ Recv_appUsers_create \/ appUsers_create_s1 \/ appUsers_create_s2
  \/ appUsers_create_s3
  \/ Recv_appUsers_update \/ appUsers_update_s1
  \/ Recv_appUsers_delete \/ appUsers_delete_s1

UsersSpec == UsersInit /\ [][UsersNext]_vars

\* ================================================ errorLog (README.md)
\* README.md 898-965.  Of an error_logs row the columns id, resolved,
\* resolved_at and resolved_by are kept; type, message, source and metadata
\* are written once by errorLog.create and read by no condition.
ErrorRow(id) == [id |-> id, resolved |-> FALSE, resolved_at |-> NoTime, resolved_by |-> NULL]

\* the entry an errorLog.create before start-up has left behind
SeedError == ErrorRow(1)

\* the ids and resolvedBy values of the errorLog.resolve requests considered
ErrorIdInputs  == {1, 2}
ResolverInputs == {"a", "b"}

Recv_full_errorLog_create ==
  /\ variant = "full"
  /\ Accept([BlankReq EXCEPT !.op = "errorLog.create"])
  /\ UNCHANGED <<env, store>>

\* INSERT INTO error_logs (type, message, source, metadata) ... RETURNING id:
\* resolved takes its DEFAULT false.  No statement deletes from error_logs,
\* so the next id of the sequence is taken as the number of rows plus one.
full_errorLog_create_s1 ==
  \E r \in inflight :
    /\ At(r, "errorLog.create", 1)
    /\ \E ok \in BOOLEAN :
         IF ok
         THEN /\ error_logs' = error_logs \cup {ErrorRow(Cardinality(error_logs) + 1)}
              /\ Reply(r, [r EXCEPT !.stmts = @ + 1, !.created = TRUE,
                                    !.errId = Cardinality(error_logs) + 1], TRUE, "none")
         ELSE Thrown(r) /\ UNCHANGED error_logs
    /\ UNCHANGED <<env, userTables, visitor_records, nextId, audit_logs,
                   checkin_records, inMemoryRecords, app_settings>>

Recv_full_errorLog_resolve ==
  /\ variant = "full"
  /\ \E id \in ErrorIdInputs, by \in ResolverInputs :
       Accept([BlankReq EXCEPT !.op = "errorLog.resolve", !.errId = id, !.userId = by])
  /\ UNCHANGED <<env, store>>

\* (a resolve that leaves an entry already resolved as it is)
ResolveRow_keepFirst(x, by, t) ==
  IF x.resolved THEN x
  ELSE [x EXCEPT !.resolved = TRUE, !.resolved_at = t, !.resolved_by = by]

\* SET resolved = true, resolved_at = CURRENT_TIMESTAMP, resolved_by = $1
ResolveRow(x, by, t) ==
  [x EXCEPT !.resolved = TRUE, !.resolved_at = t, !.resolved_by = by]

\* UPDATE error_logs SET ... WHERE id = $2
full_errorLog_resolve_s1 ==
  \E r \in inflight :
    /\ At(r, "errorLog.resolve", 1)
    /\ \E ok \in BOOLEAN, t \in ClockReadings :
         IF ok
         THEN LET hit == {x \in error_logs : x.id = r.errId}
              IN  /\ now' = t
                  /\ error_logs' = (error_logs \ hit) \cup
                                   {ResolveRow(x, r.userId, t) : x \in hit}
                  /\ Reply(r, [r EXCEPT !.stmts = @ + 1, !.matched = Cardinality(hit),
                                 !.prevBy = IF hit = {} THEN NULL
                                            ELSE (CHOOSE x \in hit : TRUE).resolved_by],
                           TRUE, "none")
         ELSE Thrown(r) /\ UNCHANGED <<now, error_logs>>
    /\ UNCHANGED <<deploy, userTables, visitor_records, nextId, audit_logs,
                   checkin_records, inMemoryRecords, app_settings>>

ErrorLogInit ==
  /\ variant = "full"
  /\ hasDb = TRUE
  /\ now = 0
  /\ visitor_records = {}
  /\ nextId = 1
  /\ audit_logs = <<>>
  /\ checkin_records = {}
  /\ inMemoryRecords = <<>>
  /\ app_settings = SettingsAtStart(variant)
  /\ app_users = UsersAtStart(variant)
  /\ nextUserId = 3
  /\ error_logs \in {{}, {SeedError}}
  /\ inflight = {}
  /\ nreq = 0
  /\ last = BlankReq

ErrorLogNext ==
  \/ Recv_full_errorLog_create \/ full_errorLog_create_s1
  \/ Recv_full_errorLog_resolve \/ full_errorLog_resolve_s1

ErrorLogSpec == ErrorLogInit /\ [][ErrorLogNext]_vars

\* ============================================ visitors.active, visitors.byId
\* server.js 364-426
\* (a query without the status condition)
ActiveRows_all == visitor_records

\* SELECT * FROM visitor_records WHERE status = 'IN'
ActiveRows == {v \in visitor_records : v.status = "IN"}

Recv_visitors_active ==
  /\ variant = "server"
  /\ Accept([BlankReq EXCEPT !.op = "visitors.active"])
  /\ UNCHANGED <<env, store>>

\* the catch answers the empty list
visitors_active_s1 ==
  \E r \in inflight :
    /\ At(r, "visitors.active", 1)
    /\ \E ok \in BOOLEAN :
         IF ok
         THEN Reply(r, [r EXCEPT !.stmts = @ + 1,
                                 !.ids = {v.record_id : v \in ActiveRows}], TRUE, "none")
         ELSE Reply(r, [r EXCEPT !.stmts = @ + 1], TRUE, "storage")
    /\ UNCHANGED <<env, store>>

\* input.recordId || req.query.recordId: the id of a record, or none (NullId)
Recv_visitors_byId ==
  /\ variant = "server"
  /\ \E rid \in {NullId} \cup {v.record_id : v \in visitor_records} :
       Accept([BlankReq EXCEPT !.op = "visitors.byId", !.recordId = rid])
  /\ UNCHANGED <<env, store>>

\* SELECT * FROM visitor_records WHERE record_id = $1; no row and a failed
\* SELECT are both answered null
visitors_byId_s1 ==
  \E r \in inflight :
    /\ At(r, "visitors.byId", 1)
    /\ \E ok \in BOOLEAN :
         IF ~ok THEN Reply(r, [r EXCEPT !.stmts = @ + 1], TRUE, "storage")
         ELSE IF ByRecordId(r.recordId) = {}
         THEN Reply(r, [r EXCEPT !.stmts = @ + 1, !.matched = 0], TRUE, "none")
         ELSE \E v \in ByRecordId(r.recordId) :
                Reply(r, [r EXCEPT !.stmts = @ + 1, !.matched = 1, !.found = TRUE,
                                   !.status = v.status, !.checkOutTime = v.check_out_time],
                      TRUE, "none")
    /\ UNCHANGED <<env, store>>

\* a second record, checked in by the same client at time 0
SecondRow == [SeedRow EXCEPT !.id = 2, !.record_id = <<"APP", 0, 1>>,
                            !.full_name = "Bob", !.qr_code = <<"APP", <<"APP", 0, 1>>>>]

ReadInit ==
  /\ variant = "server"
  /\ hasDb = TRUE
  /\ now = 0
  /\ visitor_records \in {{SeedRow}, {SeedRow, SecondRow}}
  /\ nextId = Cardinality(visitor_records) + 1
  /\ audit_logs = <<SeedAudit>>
  /\ checkin_records = {}
  /\ inMemoryRecords = <<>>
  /\ app_settings = SettingsAtStart(variant)
  /\ app_users = UsersAtStart(variant)
  /\ nextUserId = 3
  /\ error_logs = {}
  /\ inflight = {}
  /\ nreq = 0
  /\ last = BlankReq

ReadNext ==
  \/ Recv_visitors_checkOut \/ visitors_checkOut_s1 \/ visitors_checkOut_s2
  \/ Recv_visitors_active \/ visitors_active_s1
  \/ Recv_visitors_byId \/ visitors_byId_s1

ReadSpec == ReadInit /\ [][ReadNext]_vars

\* ====================================== check-out by token, shared tokens
\* README.md 472-503 stores the qrCode of the request as it is, and the
\* qr_code column has no UNIQUE constraint (README.md 112-140): a second
\* visitors.checkIn with another recordId and the qrCode of the seeded record
\* leaves this row behind.
TwinRow == [SeedRow EXCEPT !.id = 2, !.record_id = <<"APP", 0, 1>>, !.full_name = "Bob"]

TokenInit ==
  /\ variant = "full"
  /\ hasDb = TRUE
  /\ now = 0
  /\ visitor_records \in {{SeedRow}, {SeedRow, TwinRow}}
  /\ nextId = Cardinality(visitor_records) + 1
  /\ audit_logs = <<SeedAudit>>
  /\ checkin_records = {}
  /\ inMemoryRecords = <<>>
  /\ app_settings = SettingsAtStart(variant)
  /\ app_users = UsersAtStart(variant)
  /\ nextUserId = 3
  /\ error_logs = {}
  /\ inflight = {}
  /\ nreq = 0
  /\ last = BlankReq

TokenNext ==
  \/ Recv_selfCheckIn_checkOut \/ selfCheckIn_checkOut_s1
  \/ selfCheckIn_checkOut_s2 \/ selfCheckIn_checkOut_s3

TokenSpec == TokenInit /\ [][TokenNext]_vars

\* ================================================================ claims
CheckOutOps == {"visitors.checkOut", "visitors.forceCheckOut", "selfCheckIn.checkOut"}

\* C1: every visitor record with status OUT has a check-out time, and that
\* time is not earlier than its check-in time (in every store of every
\* deployment).
C1_OutHasCheckOutTime ==
  /\ \A v \in visitor_records :
       v.status = "OUT" =>
         v.check_out_time # NoTime /\ v.check_out_time >= v.check_in_time
  /\ \A v \in checkin_records :
       v.status = "checked_out" =>
         v.check_out_time # NoTime /\ v.check_out_time >= v.check_in_time
  /\ \A i \in 1..Len(inMemoryRecords) :
       inMemoryRecords[i].status = "checked_out" =>
         /\ inMemoryRecords[i].check_out_time # NoTime
         /\ inMemoryRecords[i].check_out_time >= inMemoryRecords[i].check_in_time

\* a record has been checked out after the clock moved on from its check-in
C1_Witness ==
  \E v \in visitor_records : v.status = "OUT" /\ v.check_out_time > v.check_in_time

\* C2: OUT is terminal.  In every step, a record that is IN afterwards was IN
\* before or did not exist before (it was created by this step's check-in);
\* so no step takes an existing record from OUT to IN.
C2_OutIsTerminal ==
  [][ /\ \A w \in visitor_records' : w.status = "IN" =>
           \A v \in visitor_records : v.id = w.id => v.status = "IN"
      /\ \A w \in checkin_records' : w.status = "checked_in" =>
           \A v \in checkin_records : v.record_id = w.record_id => v.status = "checked_in"
      /\ \A i \in 1..Len(inMemoryRecords) :
           inMemoryRecords'[i].status = "checked_in" =>
             inMemoryRecords[i].status = "checked_in" ]_vars

\* an update carrying a status key has been applied to a record that is OUT
C2_Witness ==
  /\ last.op = "visitors.update" /\ last.success
  /\ "status" \in last.patch /\ last.matched = 1
  /\ \E v \in ByRecordId(last.recordId) : v.status = "OUT" /\ v.full_name = "Bob"

\* C3 (as claimed): a checkOut or forceCheckOut received for a record that is
\* already OUT, and whose statements all ran, answers AlreadyCheckedOut or
\* leaves the record's check-out time as the first check-out set it.
C3_SecondCheckOutKeepsTime ==
  (/\ last.op \in {"visitors.checkOut", "visitors.forceCheckOut"}
   /\ last.hitOut /\ ~last.inAtRecv /\ ~last.audFailed)
  => \/ ~last.success /\ last.error = "alreadyOut"
     \/ ~last.moved

\* C4 (as claimed): of the check-outs that are in flight for a record that is
\* IN, only one performs the transition: a check-out received while the
\* record was IN, and whose statements all ran, never rewrites a record that
\* another one has moved to OUT, reports success or appends an audit entry.
C4_OneConcurrentCheckOut ==
  (last.op \in CheckOutOps /\ last.inAtRecv /\ last.hitOut /\ ~last.audFailed)
  => ~last.committed /\ ~last.success /\ last.aud = <<>>

\* the audit action the claim expects for an operation
ExpectedAction(op) ==
  CASE op \in {"visitors.checkIn", "selfCheckIn.submit"} -> "CHECK_IN"
    [] op = "visitors.checkOut" -> "CHECK_OUT"
    [] op = "visitors.update" -> "EDIT_RECORD"
    [] op = "visitors.delete" -> "DELETE_RECORD"

\* C5 (as claimed): a successful checkIn, submit, checkOut, update or delete
\* has appended exactly one audit entry, with the record's recordId and the
\* action of the operation (stated for updates of a record that exists).
C5_OneAuditEntryPerSuccess ==
  (/\ variant = "server"
   /\ last.success
   /\ last.op = "visitors.update" => ByRecordId(last.recordId) # {}
   /\ last.op \in {"visitors.checkIn", "selfCheckIn.submit", "visitors.checkOut",
                   "visitors.update", "visitors.delete"})
  => /\ Len(last.aud) = 1
     /\ last.aud[1].record_id = last.recordId
     /\ last.aud[1].action = ExpectedAction(last.op)

\* C6 (as claimed): a checkOut whose record update has committed reports
\* success also when its audit insert fails.
C6_AuditIsBestEffort ==
  (/\ last.op = "visitors.checkOut"
   /\ last.matched = 1 /\ last.committed /\ last.audFailed)
  => last.success

\* C7 (as claimed): a checkOut whose recordId matches no record does not
\* report success.
C7_CheckOutNotFound ==
  (last.op = "visitors.checkOut" /\ last.matched = 0) => ~last.success

\* C8 (as claimed): selfCheckIn.checkOut does not succeed silently: with no
\* matching record, or with a record that was already OUT when the request
\* came, it reports a failure, changes no record and appends no audit entry.
C8_TokenCheckOutNeverSilent ==
  (/\ last.op = "selfCheckIn.checkOut"
   /\ \/ last.matched = 0
      \/ last.hitOut /\ ~last.inAtRecv)
  => ~last.success /\ ~last.committed /\ last.aud = <<>>

\* C9 (as claimed): selfCheckIn.submit with a fullName and without consent,
\* when no store statement fails, answers a failure and creates no visitor
\* record.
C9_SubmitNeedsConsent ==
  (/\ variant \in {"server", "full"}
   /\ last.op = "selfCheckIn.submit"
   /\ ~Falsy(last.fullName) /\ ~last.consent /\ ~last.audFailed)
  => ~last.success /\ ~last.created

\* C10 (as claimed): a check-in without fullName fails before any store
\* statement is issued, and creates neither a record nor an audit entry.
C10_NameValidatedBeforeStore ==
  (/\ last.op \in {"visitors.checkIn", "selfCheckIn.submit"}
   /\ last.fullName = NULL)
  => ~last.success /\ last.stmts = 0 /\ ~last.created /\ last.aud = <<>>


\* C11 (as claimed): the record a successful visitors.checkIn has persisted
\* carries a token expiry equal to its creation time plus 24 hours (and, as
\* long as no check-out has touched it, status IN and no check-out time).
C11_CheckInExpiryIs24h ==
  (last.op = "visitors.checkIn" /\ last.success)
  => \A v \in ByRecordId(last.recordId) :
       /\ v.qr_expiry = v.check_in_time + DayTicks
       /\ v.status = "IN" => v.check_out_time = NoTime

\* C12: in the visitor_records table no two rows share a record_id, no step
\* changes the record_id of an existing row, and the INSERT of a check-in
\* whose recordId is already in the table fails: the request is answered with
\* a failure and the table is left as it was.  (checkin_records of the
\* fallback server is held to the first two.)
CheckInOps == {"visitors.checkIn", "selfCheckIn.submit"}

LiteStored(rid) ==
  Cardinality({v \in checkin_records : v.record_id = rid})
  + Cardinality({i \in 1..Len(inMemoryRecords) : inMemoryRecords[i].record_id = rid})

\* C13 (as claimed): the recordId returned by a successful self check-in that
\* stored its record was returned by no other successful check-in: it names
\* that one record only.
C13_DistinctRecordIds ==
  (/\ variant = "lite"
   /\ last.op = "selfCheckIn.submit" /\ last.success /\ last.created)
  => LiteStored(last.recordId) = 1

\* C14: visitors.update has patch semantics.  In the step that runs the
\* UPDATE of an update request, no row appears or disappears; in the row the
\* request selects, fullName and phone take the request's value when the
\* request carries the key and the statement succeeds; every other column of
\* that row, and every column of every other row, keeps its value, whatever
\* keys the request carries.
UpdatableColumn == [fullName |-> "full_name", phone |-> "phone"]

Selected(r, v) ==
  IF variant = "server" THEN v.record_id = r.recordId ELSE v.id = r.dbId

C14_UpdateIsAPatch ==
  [][ \A r \in inflight :
        (r.op = "visitors.update" /\ r.pc = 1 /\ r \notin inflight')
        => LET done == \E r2 \in inflight' : r2.n = r.n IN
           /\ {w.id : w \in visitor_records'} = {v.id : v \in visitor_records}
           /\ \A v \in visitor_records : \A w \in visitor_records' :
                v.id = w.id =>
                  /\ \A c \in DOMAIN v \ {"full_name", "phone"} : w[c] = v[c]
                  /\ \A k \in DOMAIN UpdatableColumn :
                       w[UpdatableColumn[k]] =
                         IF done /\ Selected(r, v) /\ k \in r.patch
                         THEN PatchVal(k) ELSE v[UpdatableColumn[k]] ]_vars

\* an update carrying only phone has been applied to a record: the phone is
\* the new one, and the name is the one from the check-in
C14_Witness ==
  /\ last.op = "visitors.update" /\ last.success
  /\ last.patch = {"phone"} /\ last.matched = 1
  /\ \E v \in visitor_records : v.phone = "p1" /\ v.full_name = "Ann"

\* C15 (as claimed): a visitors.delete that removed a record and reports
\* success has appended one DELETE_RECORD audit entry that carries the actor
\* and, as its label, the name the record had.
C15_DeleteAuditCarriesName ==
  (/\ variant = "server"
   /\ last.op = "visitors.delete" /\ last.success /\ last.matched = 1)
  => /\ Len(last.aud) = 1
     /\ last.aud[1].action = "DELETE_RECORD"
     /\ last.aud[1].user_id = last.userId
     /\ last.aud[1].details = last.gone

\* C16 (amended): the audit log is append-only: every step leaves the entries
\* of audit_logs in place and unchanged, also the step that deletes a visitor
\* record; and auditLogs.list returns the newest entries, newest first, up to
\* its limit of 500: an entry written for a record is returned exactly as
\* long as fewer than 500 newer entries are in the log.
C16_AppendOnlyListNewest ==
  [][ /\ Len(audit_logs') >= Len(audit_logs)
      /\ SubSeq(audit_logs', 1, Len(audit_logs)) = audit_logs
      /\ (last'.op = "auditLogs.list" /\ last'.error = "none") =>
           /\ last'.total <= Len(audit_logs')
           /\ Len(last'.rows) = Min(last'.total, ListLimit)
           /\ \A j \in 1..Len(last'.rows) :
                last'.rows[j] = audit_logs'[last'.total - j + 1] ]_vars

\* the list has been read after the seeded record was deleted, from a log of
\* more than 500 entries
C16_Witness ==
  /\ last.op = "auditLogs.list" /\ last.error = "none"
  /\ last.total > ListLimit
  /\ visitor_records = {}
  /\ \E i \in 1..last.total : audit_logs[i].action = "DELETE_RECORD"

\* C16 (as claimed): a list read after the deletion of a record returns every
\* audit entry written for that record.
C16_ListReturnsAllOfDeleted ==
  (/\ last.op = "auditLogs.list" /\ last.error = "none"
   /\ \E i \in 1..last.total : audit_logs[i].action = "DELETE_RECORD")
  => \A i \in 1..last.total :
       audit_logs[i].record_id = SeedRow.record_id
       => \E j \in 1..Len(last.rows) : last.rows[j] = audit_logs[i]

\* C17: the statistics of a day count, over all records, todayIn = the
\* records whose check_in_time lies in that day, todayOut = the records whose
\* check_out_time lies in that day, and pending = the records with status IN,
\* whenever they were checked in.
StatsOps == {"stats.today", "visitors.stats"}

InDay(t, day) == t # NoTime /\ t >= day /\ t < day + DayTicks

C17_StatsCountTheDay ==
  (last.op \in StatsOps /\ last.error = "none")
  => /\ last.todayIn  = Cardinality({v \in visitor_records : InDay(v.check_in_time, last.today)})
     /\ last.todayOut = Cardinality({v \in visitor_records : InDay(v.check_out_time, last.today)})
     /\ last.pending  = Cardinality({v \in visitor_records : v.status = "IN"})

\* C18: the settings round trip of server.js.  At every state app_settings holds at most
\* one row per key; and the answer of settings.get carries, for consentText
\* and for notificationTime, the stored value whatever string it is (the
\* empty string included) and the default when the key has no row, and for
\* retentionDays the default 90 when the key has no row.
StoredValues(rows, k) == {x.value : x \in {y \in rows : y.key = k}}

RoundTrip(rows, k, returned, default) ==
  IF StoredValues(rows, k) = {} THEN returned = default
  ELSE returned \in StoredValues(rows, k)

C18_SettingsRoundTrip ==
  /\ \A x, y \in app_settings : x.key = y.key => x = y
  /\ (variant = "server" /\ last.op = "settings.get" /\ last.error = "none") =>
       /\ RoundTrip(last.settings, "consentText", last.consentText, DefaultConsentText)
       /\ RoundTrip(last.settings, "notificationTime", last.notificationTime,
                    DefaultNotificationTime)
       /\ StoredValues(last.settings, "retentionDays") = {}
            => last.retentionDays = JsNumber(90)

\* C19: once a settings write has been made and answered with success, the row of the written key has
\* an updated_at no older than the clock reading of that write, whether the
\* write created the row or replaced its value.
SettingsWriteOps == {"settings.update", "email.updateSettings"}

C19_WriteRefreshesUpdatedAt ==
  (last.op \in SettingsWriteOps /\ last.success)
  => \A w \in last.written : \A x \in app_settings :
       x.key = w.key => x.updated_at >= w.at

\* C20: when the stored retentionDays does not parse as an integer,
\* settings.get of server.js answers without error and with retentionDays = 90.
C20_MalformedRetentionGivesDefault ==
  (/\ variant = "server" /\ last.op = "settings.get" /\ last.error = "none"
   /\ \E v \in StoredValues(last.settings, "retentionDays") : ParseInt(v).nan)
  => last.success /\ last.retentionDays = JsNumber(90)

\* C21: a login answered with success has appended one USER_LOGIN entry, for
\* its username, and a login answered with a failure (unknown username, wrong
\* or missing credential, missing field, failed statement) has appended none;
\* no other step adds a USER_LOGIN entry.  On a store just initialised, the
\* login of admin / admin123 is answered with success and role admin unless a
\* statement fails.
Answering(r) == r \in inflight /\ \A r2 \in inflight' : r2.n # r.n

AnsweredAtOnce == nreq' = nreq + 1 /\ inflight' = inflight

CountOf(log, action) == Cardinality({i \in 1..Len(log) : log[i].action = action})

C21_LoginAudit ==
  [][ /\ \A r \in inflight :
           (r.op = "appUsers.login" /\ r \notin inflight') =>
             IF Answering(r) /\ last'.success
             THEN audit_logs' = Append(audit_logs, LoginAudit(r.username))
             ELSE audit_logs' = audit_logs
      /\ (AnsweredAtOnce /\ last'.op = "appUsers.login") =>
           ~last'.success /\ audit_logs' = audit_logs
      /\ CountOf(audit_logs', "USER_LOGIN") # CountOf(audit_logs, "USER_LOGIN") =>
           \E r \in inflight :
             r.op = "appUsers.login" /\ Answering(r) /\ last'.success
      /\ \A r \in inflight :
           (/\ nreq = 1 /\ Answering(r) /\ r.op = "appUsers.login"
            /\ r.username = "admin" /\ r.password = "admin123"
            /\ last'.error # "storage")
           => last'.success /\ last'.role = "admin" ]_vars

\* the administrator has logged in on the fresh store, and a later login with
\* a wrong password has failed: the log holds the one entry of the first
C21_Witness ==
  /\ last.op = "appUsers.login" /\ ~last.success /\ last.error = "credentials"
  /\ audit_logs = <<LoginAudit("admin")>>

\* C22: an errorLog.resolve whose UPDATE ran is answered with success, also
\* when the entry was resolved before, and leaves the entry it names resolved
\* with the resolvedBy of this request and every other entry as it was; no
\* step removes an entry or turns a resolved entry back to unresolved.
C22_ResolveIdempotentOneWay ==
  [][ /\ \A x \in error_logs :
           \E y \in error_logs' : y.id = x.id /\ (x.resolved => y.resolved)
      /\ \A r \in inflight :
           (r.op = "errorLog.resolve" /\ Answering(r) /\ last'.error # "storage") =>
             /\ last'.success
             /\ \A x \in error_logs : \E y \in error_logs' :
                  /\ y.id = x.id
                  /\ IF x.id = r.errId
                     THEN y.resolved /\ y.resolved_by = r.userId
                     ELSE y = x
             /\ Cardinality(error_logs') = Cardinality(error_logs) ]_vars

\* the seeded entry was resolved by a and has then been resolved by b
C22_Witness ==
  /\ last.op = "errorLog.resolve" /\ last.success
  /\ last.userId = "b" /\ last.prevBy = "a"
  /\ \E x \in error_logs : x.id = last.errId /\ x.resolved /\ x.resolved_by = "b"

\* C23: a request whose store statement failed is answered with a failure
\* (success:false), never with a result that reads as a success.
C23_StoreFailureIsReported ==
  last.error = "storage" => ~last.success

\* C24: visitors.active, when its SELECT runs, returns exactly the records
\* with status IN, and visitors.byId returns the status and checkOutTime of
\* the record it names; a checkOut answered with success that matched a
\* record leaves it with status OUT and a checkOutTime, so that the record is
\* read OUT by visitors.byId and is absent from visitors.active from then on.
C24_ActiveIsExactlyIn ==
  [][ /\ \A r \in inflight :
           (r.op = "visitors.active" /\ Answering(r) /\ last'.error = "none") =>
             last'.ids = {v.record_id : v \in {w \in visitor_records : w.status = "IN"}}
      /\ \A r \in inflight :
           (r.op = "visitors.byId" /\ Answering(r) /\ last'.error = "none") =>
             /\ last'.found = (ByRecordId(r.recordId) # {})
             /\ \A v \in ByRecordId(r.recordId) :
                  /\ last'.status = v.status
                  /\ last'.checkOutTime = v.check_out_time
                  /\ v.status = "OUT" => last'.checkOutTime # NoTime
      /\ \A r \in inflight :
           (/\ r.op = "visitors.checkOut" /\ Answering(r)
            /\ last'.success /\ r.matched >= 1) =>
             \A v \in visitor_records' :
               v.record_id = r.recordId => v.status = "OUT" /\ v.check_out_time # NoTime
      /\ \A v \in visitor_records : \A w \in visitor_records' :
           (v.id = w.id /\ v.status = "OUT") => w.status = "OUT" ]_vars

\* the first record has been checked out and visitors.active has then
\* returned the second record only
C24_Witness ==
  /\ last.op = "visitors.active" /\ last.error = "none"
  /\ last.ids = {SecondRow.record_id}
  /\ \E v \in visitor_records :
       v.record_id = SeedRow.record_id /\ v.status = "OUT" /\ v.check_out_time # NoTime

\* C25: a check-in answered with a failure has added no visitor record.
C25_FailedCheckInAddsNothing ==
  (variant = "server" /\ last.op \in CheckInOps /\ ~last.success)
  => ~last.created

\* C26: a selfCheckIn.submit of the fallback server answered with success has
\* stored a record under the recordId and qrCode it returned.
C26_SubmitSuccessIsStored ==
  (variant = "lite" /\ last.op = "selfCheckIn.submit" /\ last.success)
  => \/ \E v \in checkin_records :
          v.record_id = last.recordId /\ v.qr_code = last.qrCode
     \/ \E i \in 1..Len(inMemoryRecords) :
          /\ inMemoryRecords[i].record_id = last.recordId
          /\ inMemoryRecords[i].qr_code = last.qrCode

\* C27: a checkOut, forceCheckOut, update or delete of server.js that has
\* appended an audit entry matched a visitor record when its store statement ran.
RecordAuditOps ==
  {"visitors.checkOut", "visitors.forceCheckOut", "visitors.update", "visitors.delete"}

C27_AuditOnlyForExistingRecord ==
  (variant = "server" /\ last.op \in RecordAuditOps /\ last.aud # <<>>)
  => last.matched >= 1

\* C28: a selfCheckIn.checkOut answered with success has moved one record to
\* OUT, the record its audit entry names: every record that is OUT is that
\* record (the records start IN and nothing else checks out here).
C28_TokenCheckOutMovesOne ==
  (last.op = "selfCheckIn.checkOut" /\ last.success)
  => /\ last.matched = 1
     /\ \A v \in visitor_records :
          v.status = "OUT" => v.record_id = last.aud[1].record_id

\* C29: no two user rows share a username.  An appUsers.create that inserts
\* a row inserts one row, for a username no row had, and unless a statement
\* fails it appends one USER_CREATED entry and is answered with success; a
\* create that loses to another one for the same username (at its SELECT or,
\* when both have passed the SELECT, at its INSERT) is answered with a
\* failure and changes neither app_users nor audit_logs.
C29_UsernamesUnique ==
  [][ /\ \A x, y \in app_users' : x.username = y.username => x = y
      /\ \A r \in inflight :
           (r.op = "appUsers.create" /\ r \notin inflight') =>
             /\ app_users' # app_users =>
                  /\ ~r.created
                  /\ \A x \in app_users : x.username # r.username
                  /\ \E x \in app_users' :
                       x.username = r.username /\ app_users' = app_users \cup {x}
             /\ audit_logs' # audit_logs =>
                  /\ r.created /\ Answering(r) /\ last'.success
                  /\ audit_logs' = Append(audit_logs, CreateAudit(r.username))
             /\ (Answering(r) /\ last'.success) =>
                  r.created /\ audit_logs' # audit_logs
             /\ (Answering(r) /\ r.created /\ last'.error # "storage") => last'.success
             /\ (Answering(r) /\ ~r.created) =>
                  /\ ~last'.success
                  /\ app_users' = app_users /\ audit_logs' = audit_logs
             /\ (Answering(r) /\ last'.error \in {"exists", "conflict"}) =>
                  \E x \in app_users : x.username = r.username ]_vars

\* two creates of bob have both passed the SELECT; one has inserted the row
\* and appended its entry, the other has failed at its INSERT
C29_Witness ==
  /\ last.op = "appUsers.create" /\ last.username = "bob"
  /\ ~last.success /\ last.error = "conflict" /\ ~last.created
  /\ Cardinality({x \in app_users : x.username = "bob"}) = 1
  /\ CountOf(audit_logs, "USER_CREATED") = 1

\* C30: a login goes past its query only when, at that moment, a row has its
\* username, exactly its password and is_active = true, and only such a login
\* is answered with success; so once an update has disabled the user or
\* changed the password, or a delete has removed the row, a later login with
\* the old pair fails for as long as no such row exists.
C30_LoginNeedsActiveMatchingUser ==
  [][ /\ \A r \in inflight :
           (r.op = "appUsers.login" /\ r.pc = 1 /\ r \notin inflight') =>
             LET match == {x \in app_users : /\ x.username = r.username
                                             /\ x.password_hash = r.password
                                             /\ x.is_active = TRUE}
             IN  IF match = {}
                 THEN Answering(r) /\ ~last'.success
                 ELSE \/ Answering(r) /\ ~last'.success /\ last'.error = "storage"
                      \/ \E r2 \in inflight' :
                           r2.n = r.n /\ r2.pc = 2 /\ r2.selUser \in {x.id : x \in match}
      /\ \A r \in inflight :
           (r.op = "appUsers.login" /\ Answering(r) /\ last'.success) =>
             r.pc = 2 /\ r.selUser # 0 ]_vars

\* the administrator was disabled by an update, and a login with admin /
\* admin123 has then run its query and failed
C30_Witness ==
  /\ last.op = "appUsers.login" /\ last.username = "admin" /\ last.password = "admin123"
  /\ ~last.success /\ last.error = "credentials"
  /\ \E x \in app_users : x.username = "admin" /\ x.password_hash = "admin123" /\ ~x.is_active

====
